---- MODULE Spec2Model ----
(***************************************************************************)
(* Provider gateway and conversation context manager of sw-assist.         *)
(*                                                                         *)
(* The components are modelled each with its own specification:           *)
(*   SpecTrunc   - session::build_messages_with_truncation (Context Builder)*)
(*   SpecRetry   - llm::with_retries as used by LlmClient::send_openai and  *)
(*                 LlmClient::send_openai_stream (Retry Executor + adapter) *)
(*   SpecReport  - SpecRetry, and main printing the error of a failed call  *)
(*   SpecStream  - the try_stream! body of send_openai_stream (decoder)     *)
(*   SpecSendStream - send_openai_stream from the first request to the end *)
(*                 of the fragment stream                                  *)
(*   SpecGateway - llm::ProviderRegistry, its adapters and the credential   *)
(*                 resolution in front of with_retries                      *)
(*   SpecStore   - the session files and the active pointer (session.rs)    *)
(*   SpecSession - `session switch` (main.rs) on the store                 *)
(*   SpecRead    - the read paths of session.rs over files of any content  *)
(*   SpecTurns   - the turns of cmd_ask and cmd_chat (main.rs) on the store *)
(*   SpecWriters - two processes in append_record at the same time         *)
(*   SpecChunk   - io::chunk_text_for_token_limit                           *)
(*   SpecSummarize - the fan-out and the synthesis of cmd_summarize         *)
(* The variables of a component that a specification does not run stay at  *)
(* their idle values.                                                      *)
(***************************************************************************)
EXTENDS Integers, Sequences, FiniteSets, TLC

VARIABLES
  \* --- Context Builder (session.rs) ---
  history,           \* &[SessionRecord] argument
  new_user_message,  \* &str argument (sequence of characters)
  max_tokens,        \* usize argument
  pcT,               \* position inside build_messages_with_truncation
  messages,          \* local Vec<ChatMessage>: history + new message
  idx,               \* position of messages.iter().rev(): next index to visit
  total,             \* local accumulator
  kept,              \* local Vec<ChatMessage>; the return value once pcT = "returned"
  \* --- Retry Executor and adapter (llm.rs) ---
  pcR,               \* position inside send_openai / send_openai_stream
  stream,            \* TRUE for send_openai_stream, FALSE for send_openai
  attempt,           \* with_retries: local counter
  log,               \* outcome of every invocation of the closure f, in order
  sleeps,            \* every backoff (ms) slept so far, in order
  wr,                \* value returned by with_retries (None while it runs)
  result,            \* value returned by send_openai / send_openai_stream
  \* --- Streaming Decoder (llm.rs) ---
  pcS,               \* position of the fragment stream
  sent,              \* the lines the backend wrote into the response body
  wire,              \* the bytes of the response body
  pos,               \* number of bytes already delivered by the transport
  fragments,         \* everything yielded to the consumer, in order
  content,           \* local String accumulating the pieces
  sawDone,           \* observer: the `data == "[DONE]"` branch has been taken
  afterDone,         \* observer: fragments yielded after that branch was taken
  \* --- Provider registry and credential resolution (llm.rs) ---
  map,               \* ProviderRegistry.map
  lookup,            \* the last ProviderRegistry::get: its argument and its value
  env,               \* the process environment: variable -> Option<String>
  api_base,          \* req.api_base of the last adapter call
  base,              \* send_openai: local `base`
  api_key_opt,       \* send_openai: local `api_key_opt`
  require_key,       \* send_openai: local `require_key`
  reads,             \* observer: the variables the last adapter call read with env::var
  \* --- Conversation Store (session.rs) ---
  files,             \* sessions/<name>.jsonl: name -> Option<bytes of the file>
  active,            \* the file active_session: Option<bytes of the file>
  ret,               \* the value the last store operation or command returned
  last_op,           \* observer: the operation or command that returned it
  last_set,          \* observer: the argument of the last set_active_session
  \* --- cmd_ask and cmd_chat (main.rs) ---
  clock,             \* SystemTime::now(), in ms since the epoch
  pcA,               \* position inside cmd_ask / cmd_chat
  turn,              \* the locals of the running command
  done,              \* observer: the turns bound to a conversation that completed
  \* --- concurrent append_record calls (session.rs) ---
  writers,           \* process -> position inside append_record and its arguments
  \* --- chunking and cmd_summarize (io.rs, main.rs) ---
  input_text,        \* the content of the file to summarize
  max_tokens_per_chunk, \* --max-tokens, or its default
  eff_provider,      \* the effective provider, in lower case
  chunks,            \* Vec<(usize, String)>, the value of chunk_text_for_token_limit
  pcB,               \* position inside cmd_summarize
  tasks,             \* the spawned tasks: where each one is
  partials,          \* local Vec<String>: the values of the tasks awaited so far
  calls              \* observer: every request sent through the adapter, in order

truncVars == <<history, new_user_message, max_tokens, pcT, messages, idx, total, kept>>
retryVars == <<pcR, stream, attempt, log, sleeps, wr, result>>
streamVars == <<pcS, sent, wire, pos, fragments, content, sawDone, afterDone>>
gatewayVars == <<map, lookup, env, api_base, base, api_key_opt, require_key, reads>>
cmdVars == <<clock, pcA, turn, done, writers>>
storeVars == <<files, active, ret, last_op, last_set, cmdVars>>
batchVars == <<input_text, max_tokens_per_chunk, eff_provider, chunks, pcB, tasks, partials, calls>>
vars == <<truncVars, retryVars, streamVars, gatewayVars, storeVars, batchVars>>

\* what a step of one component leaves alone
notTrunc == <<retryVars, streamVars, gatewayVars, storeVars, batchVars>>
notRetry == <<truncVars, streamVars, gatewayVars, storeVars, batchVars>>
notStream == <<truncVars, retryVars, gatewayVars, storeVars, batchVars>>
notGateway == <<truncVars, streamVars, storeVars, batchVars>>
notStore == <<truncVars, retryVars, streamVars, gatewayVars, batchVars>>
notBatch == <<truncVars, retryVars, streamVars, gatewayVars, files, active, last_set, cmdVars>>

\* Option<T> values
None == <<>>
Some(x) == <<x>>

\* Result<T> values: a pending slot, Ok(v), Err(e)
NoResult == [tag |-> "none"]
Ok(v) == [tag |-> "ok", value |-> v]
Err(e) == [tag |-> "err", error |-> e]

----------------------------------------------------------------------------
(* Bounds of the model *)

MaxHist == 2      \* longest history
MaxLen == 5       \* longest message text, in characters
MaxBudget == 3    \* largest token budget
MaxLines == 2     \* most content lines in one response body
MaxAppends == 2   \* most records appended to the store in one run
MaxFileLines == 2 \* most lines of a session file of any content
MaxTurns == 2     \* most completed turns bound to a conversation in one run
MaxClock == 1     \* latest reading of the system clock, in ms
MaxBodyLines == 1 \* most lines of the body behind a stream handed to the caller
MaxText == 6      \* longest text handed to chunk_text_for_token_limit
MaxChunkTokens == 1 \* largest max_tokens_per_chunk

----------------------------------------------------------------------------
(* Context Builder *)

Roles == {"user", "assistant"}

Rep(n) == [i \in 1..n |-> "a"]
Texts == {Rep(n) : n \in 0..MaxLen}

\* SessionRecord; the timestamp of the i-th stored record is i (non-decreasing)
SessionRecord(i, role, text) ==
  [timestamp_ms |-> i, role |-> role, content |-> text, model |-> None, usage |-> None]

Histories ==
  UNION {
    { [i \in 1..n |-> SessionRecord(i, rs[i], cs[i])] :
        rs \in [1..n -> Roles], cs \in [1..n -> Texts] } : n \in 0..MaxHist }

ChatMessage(role, text) == [role |-> role, content |-> text]

\* util::estimate_tokens_for_text: (chars + 3) / 4
estimate_tokens_for_text(text) == (Len(text) + 3) \div 4

\* the break condition of the truncation loop
ShouldBreakIgnoringCost(tot, t, max, k) == tot > max /\ k # <<>>
ShouldBreakAlways(tot, t, max, k) == tot + t > max
ShouldBreak(tot, t, max, k) == tot + t > max /\ k # <<>>

Reverse(s) == [i \in 1..Len(s) |-> s[Len(s) + 1 - i]]

\* kept.reverse(); kept
NotReversed(k) == k
FinalOrder(k) == Reverse(k)

IdleTrunc ==
  /\ history = <<>> /\ new_user_message = <<>> /\ max_tokens = 0
  /\ pcT = "idle" /\ messages = <<>> /\ idx = 0 /\ total = 0 /\ kept = <<>>

InitTrunc ==
  /\ history \in Histories
  /\ new_user_message \in Texts
  /\ max_tokens \in 0..MaxBudget
  /\ pcT = "call"
  /\ messages = <<>> /\ idx = 0 /\ total = 0 /\ kept = <<>>

\* lines 154-161: copy the history, push the new user message, start the walk
Convert ==
  /\ pcT = "call"
  /\ messages' = [i \in 1..Len(history) |->
                    ChatMessage(history[i].role, history[i].content)]
                 \o <<ChatMessage("user", new_user_message)>>
  /\ idx' = Len(history) + 1
  /\ total' = 0
  /\ kept' = <<>>
  /\ pcT' = "loop"
  /\ UNCHANGED <<history, new_user_message, max_tokens>>
  /\ UNCHANGED notTrunc

\* lines 162-168: one iteration that keeps the message
LoopKeep ==
  /\ pcT = "loop" /\ idx >= 1
  /\ LET msg == messages[idx]
         t == estimate_tokens_for_text(msg.content)
     IN /\ ~ShouldBreak(total, t, max_tokens, kept)
        /\ kept' = Append(kept, ChatMessage(msg.role, msg.content))
        /\ total' = total + t
  /\ idx' = idx - 1
  /\ UNCHANGED <<history, new_user_message, max_tokens, pcT, messages>>
  /\ UNCHANGED notTrunc

\* lines 164-166: the iteration that breaks out of the loop
LoopBreakContinuing ==
  /\ pcT = "loop" /\ idx >= 1
  /\ LET msg == messages[idx]
         t == estimate_tokens_for_text(msg.content)
     IN ShouldBreak(total, t, max_tokens, kept)
  /\ idx' = idx - 1
  /\ UNCHANGED <<history, new_user_message, max_tokens, pcT, messages, total, kept>>
  /\ UNCHANGED notTrunc
LoopBreak ==
  /\ pcT = "loop" /\ idx >= 1
  /\ LET msg == messages[idx]
         t == estimate_tokens_for_text(msg.content)
     IN ShouldBreak(total, t, max_tokens, kept)
  /\ pcT' = "break"
  /\ UNCHANGED <<history, new_user_message, max_tokens, messages, idx, total, kept>>
  /\ UNCHANGED notTrunc

\* lines 170-171: after the loop (exhausted or broken), reverse and return
Return ==
  /\ \/ pcT = "loop" /\ idx = 0
     \/ pcT = "break"
  /\ kept' = FinalOrder(kept)
  /\ pcT' = "returned"
  /\ UNCHANGED <<history, new_user_message, max_tokens, messages, idx, total>>
  /\ UNCHANGED notTrunc

----------------------------------------------------------------------------
(* Retry Executor and the real adapter *)

max_retries == 3
StatusOK == 200
JitterRange == 100

\* what the transport can do with one request: fail, or deliver a response
ErrKinds == {"connect", "timeout"}
Statuses == {200, 204, 400, 500}
Bodies == {"json", "garbage"}
Responses == [status : Statuses, body : Bodies, readable : BOOLEAN]
Outcomes ==
  [net : {"error"}, kind : ErrKinds] \cup [net : {"response"}, resp : Responses]

\* thread_rng().gen_range(0..100): the two ends of the range
Jitters == {0, JitterRange - 1}

TransportError(kind) == [kind |-> "transport", cause |-> kind]
ProviderError(status, text) == [kind |-> "provider", status |-> status, body |-> text]
DecodeError == [kind |-> "decode"]
\* anyhow's .context(msg): the error e under an annotation
Context(e, msg) == [kind |-> "context", msg |-> msg, source |-> e]

\* the closure handed to with_retries: `rb.send().await?` then Ok(resp)
f_status_is_error(o) ==
  IF o.net = "error" THEN Err(TransportError(o.kind))
  ELSE IF o.resp.status # StatusOK THEN Err([kind |-> "status", status |-> o.resp.status])
  ELSE Ok(o.resp)
f(o) ==
  IF o.net = "error" THEN Err(TransportError(o.kind)) ELSE Ok(o.resp)

\* `Ok(v) => return Ok(v)`: where the executor goes after a success
OkNextPcLoop == "with_retries"
OkNextPc == "status"

\* `if attempt > max_retries`
ExhaustedOneLate(a) == a > max_retries + 1
Exhausted(a) == a > max_retries

\* `return Err(e).context("request failed after retries")`, e being the error
\* of the invocation that just failed (the last entry of the log)
ExhaustedErrorFirst(l) == Context(l[1].res.error, "request failed after retries")
ExhaustedError(l) == Context(l[Len(l)].res.error, "request failed after retries")

\* (2u64.pow(attempt) * 100) + jitter
backoff_ms_linear(a, jitter) == (2 * a) * 100 + jitter
backoff_ms(a, jitter) == (2 ^ a) * 100 + jitter

\* `res.status() != StatusCode::OK`
IsErrorStatus(status) == status # StatusOK

\* res.text().await.unwrap_or_default()
BodyText(resp) == IF resp.readable THEN resp.body ELSE ""

\* res.json().await? and the extraction of choices[0].message.content
ParseResponse(resp) ==
  IF resp.readable /\ resp.body = "json"
  THEN Ok([content |-> "completion", usage |-> None])
  ELSE Err(DecodeError)

IdleRetry ==
  /\ pcR = "idle" /\ stream = FALSE /\ attempt = 0 /\ log = <<>>
  /\ sleeps = <<>> /\ wr = NoResult /\ result = NoResult

\* the request is built and the credentials are resolved (lines 81-136 and
\* 168-195); with_retries is entered with attempt = 0
InitRetry ==
  /\ pcR = "with_retries"
  /\ stream \in BOOLEAN
  /\ attempt = 0 /\ log = <<>> /\ sleeps = <<>>
  /\ wr = NoResult /\ result = NoResult

\* with_retries, lines 250-251: f() succeeds, the executor returns its value.
\* Every invocation of f issues one request, with the bearer header when
\* api_key_opt is Some (lines 139-141 / 198-200).
InvokeOk ==
  /\ pcR = "with_retries"
  /\ \E o \in Outcomes :
       /\ f(o).tag = "ok"
       /\ log' = Append(log, [outcome |-> o, res |-> f(o), auth |-> api_key_opt])
       /\ wr' = f(o)
  /\ pcR' = OkNextPc
  /\ UNCHANGED <<stream, attempt, sleeps, result>>
  /\ UNCHANGED notRetry

\* with_retries, lines 250-259: f() fails; give up or compute the backoff.
\* On giving up, the `?` at lines 143 / 202 returns the error from send.
InvokeErr ==
  /\ pcR = "with_retries"
  /\ \E o \in Outcomes, j \in Jitters :
       /\ f(o).tag = "err"
       /\ log' = Append(log, [outcome |-> o, res |-> f(o), auth |-> api_key_opt])
       /\ attempt' = attempt + 1
       /\ IF Exhausted(attempt')
          THEN /\ wr' = Err(ExhaustedError(log'))
               /\ result' = wr'
               /\ pcR' = "failed"
               /\ sleeps' = sleeps
          ELSE /\ sleeps' = Append(sleeps, backoff_ms(attempt', j))
               /\ pcR' = "sleep"
               /\ UNCHANGED <<wr, result>>
  /\ UNCHANGED stream
  /\ UNCHANGED notRetry

\* with_retries, line 258: the sleep is over, the loop starts again
Wake ==
  /\ pcR = "sleep"
  /\ pcR' = "with_retries"
  /\ UNCHANGED <<stream, attempt, log, sleeps, wr, result>>
  /\ UNCHANGED notRetry

\* lines 144-148 / 203-207: bail!("openai error {}: {}", status, text)
BailOnStatus ==
  /\ pcR = "status"
  /\ IsErrorStatus(wr.value.status)
  /\ result' = Err(ProviderError(wr.value.status, BodyText(wr.value)))
  /\ pcR' = "failed"
  /\ UNCHANGED <<stream, attempt, log, sleeps, wr>>
  /\ UNCHANGED notRetry

\* lines 149-161: parse the completion; lines 210-238: hand over the stream
Proceed ==
  /\ pcR = "status"
  /\ ~IsErrorStatus(wr.value.status)
  /\ IF stream
     THEN /\ result' = Ok([stream_of |-> wr.value.body])
          /\ pcR' = "done"
     ELSE /\ result' = ParseResponse(wr.value)
          /\ pcR' = IF ParseResponse(wr.value).tag = "ok" THEN "done" ELSE "failed"
  /\ UNCHANGED <<stream, attempt, log, sleeps, wr>>
  /\ UNCHANGED notRetry

----------------------------------------------------------------------------
(* Streaming Decoder *)

\* bytes are modelled as one-character strings (an ASCII body)
DataPrefix == <<"d", "a", "t", "a", ":", " ">>
Sentinel == <<"[", "D", "O", "N", "E", "]">>
ContentKey == <<"\"", "c", "o", "n", "t", "e", "n", "t", "\"", ":">>
Quote == <<"\"">>
Newline == <<"\n">>
Whitespace == {" ", "\t", "\r", "\n"}

Pieces == {<<"H", "e", "l">>, <<"l", "o">>}

\* the lines a backend writes: `data: {"content":"<piece>"}`, `data: [DONE]`
\* and a data line that carries no content field, `data: {}`
ContentLine(piece) == [kind |-> "content", piece |-> piece]
DoneLine == [kind |-> "done"]
OtherLine == [kind |-> "other"]
LineBytes(l) ==
  IF l.kind = "done" THEN DataPrefix \o Sentinel
  ELSE IF l.kind = "other" THEN DataPrefix \o <<"{", "}">>
  ELSE DataPrefix \o <<"{">> \o ContentKey \o Quote \o l.piece \o Quote \o <<"}">>

RECURSIVE Serialize(_)
Serialize(ls) ==
  IF ls = <<>> THEN <<>> ELSE LineBytes(Head(ls)) \o Newline \o Serialize(Tail(ls))

InsertAt(ls, i, l) == SubSeq(ls, 1, i) \o <<l>> \o SubSeq(ls, i + 1, Len(ls))

\* up to MaxLines content lines, with at most one sentinel line or one line
\* without a content field anywhere
ContentScripts ==
  UNION { { [i \in 1..n |-> ContentLine(ps[i])] : ps \in [1..n -> Pieces] } :
          n \in 0..MaxLines }
Scripts ==
  (ContentScripts \ {<<>>})
  \cup UNION { { InsertAt(ls, i, DoneLine) : i \in 0..Len(ls) } : ls \in ContentScripts }
  \cup UNION { { InsertAt(ls, i, OtherLine) : i \in 0..Len(ls) } : ls \in ContentScripts }

\* String::from_utf8_lossy on an ASCII chunk
from_utf8_lossy(bytes) == bytes

\* str::find: 0-based index of the first occurrence, or -1
Find(hay, needle) ==
  LET hits == { i \in 0..(Len(hay) - Len(needle)) :
                  SubSeq(hay, i + 1, i + Len(needle)) = needle }
  IN IF hits = {} THEN -1 ELSE CHOOSE i \in hits : \A j \in hits : i <= j

\* &s[n..]
From(str, n) == SubSeq(str, n + 1, Len(str))

\* str::lines: split at "\n", drop one "\r" before it; the last line needs no
\* line ending
RECURSIVE lines(_)
lines(text) ==
  IF text = <<>> THEN <<>>
  ELSE LET i == Find(text, Newline)
       IN IF i = -1 THEN <<text>>
          ELSE LET raw == SubSeq(text, 1, i)
                   line == IF raw # <<>> /\ raw[Len(raw)] = "\r"
                           THEN SubSeq(raw, 1, Len(raw) - 1) ELSE raw
               IN <<line>> \o lines(From(text, i + 1))

\* str::trim
RECURSIVE trim(_)
trim(str) ==
  IF str = <<>> THEN str
  ELSE IF str[1] \in Whitespace THEN trim(Tail(str))
  ELSE IF str[Len(str)] \in Whitespace THEN trim(SubSeq(str, 1, Len(str) - 1))
  ELSE str

StartsWith(str, prefix) ==
  Len(str) >= Len(prefix) /\ SubSeq(str, 1, Len(prefix)) = prefix

\* lines 223-232: the text between the first two quotes after `"content":`
\* ([found |-> FALSE] when a step of the search finds nothing)
ExtractPieceOrEmpty(data) ==
  LET key == Find(data, ContentKey)
  IN IF key = -1 THEN [found |-> TRUE, piece |-> <<>>]
     ELSE LET after == From(data, key + 10)
              start == Find(after, Quote)
          IN IF start = -1 THEN [found |-> TRUE, piece |-> <<>>]
             ELSE LET rest == From(after, start + 1)
                      end == Find(rest, Quote)
                  IN IF end = -1 THEN [found |-> TRUE, piece |-> <<>>]
                     ELSE [found |-> TRUE, piece |-> SubSeq(rest, 1, end)]
ExtractPiece(data) ==
  LET key == Find(data, ContentKey)
  IN IF key = -1 THEN [found |-> FALSE]
     ELSE LET after == From(data, key + 10)
              start == Find(after, Quote)
          IN IF start = -1 THEN [found |-> FALSE]
             ELSE LET rest == From(after, start + 1)
                      end == Find(rest, Quote)
                  IN IF end = -1 THEN [found |-> FALSE]
                     ELSE [found |-> TRUE, piece |-> SubSeq(rest, 1, end)]

\* lines 218-235: the `for line in text.lines()` loop over one chunk.
\* acc = [frags, done, after]: the pieces yielded, whether the sentinel branch
\* has been taken, and how many pieces were yielded after it was.
RECURSIVE DecodeLines(_, _)
DecodeLines(ls, acc) ==
  IF ls = <<>> THEN acc
  ELSE LET line == trim(Head(ls))
       IN IF ~StartsWith(line, DataPrefix) THEN DecodeLines(Tail(ls), acc)
          ELSE LET data == From(line, Len(DataPrefix))
               IN IF data = Sentinel
                  THEN DecodeLines(Tail(ls), [acc EXCEPT !.done = TRUE])
                  ELSE LET x == ExtractPiece(data)
                       IN IF x.found
                          THEN DecodeLines(Tail(ls),
                                 [acc EXCEPT !.frags = Append(@, x.piece),
                                             !.after = IF acc.done THEN @ + 1 ELSE @])
                          ELSE DecodeLines(Tail(ls), acc)

RECURSIVE Flatten(_)
Flatten(ss) == IF ss = <<>> THEN <<>> ELSE Head(ss) \o Flatten(Tail(ss))

IdleStream ==
  /\ pcS = "idle" /\ sent = <<>> /\ wire = <<>> /\ pos = 0 /\ fragments = <<>>
  /\ content = <<>> /\ sawDone = FALSE /\ afterDone = 0

\* line 210-214: the status was 200, the body is about to be read
InitStream ==
  /\ pcS = "open"
  /\ sent \in Scripts
  /\ wire = Serialize(sent)
  /\ pos = 0 /\ fragments = <<>> /\ content = <<>>
  /\ sawDone = FALSE /\ afterDone = 0

\* lines 215-235: the transport delivers the next n bytes as one chunk and the
\* decoder works through its lines
ReadChunk ==
  /\ pcS = "open"
  /\ pos < Len(wire)
  /\ \E n \in 1..(Len(wire) - pos) :
       LET text == from_utf8_lossy(SubSeq(wire, pos + 1, pos + n))
           r == DecodeLines(lines(text), [frags |-> <<>>, done |-> sawDone, after |-> 0])
       IN /\ fragments' = fragments \o r.frags
          /\ content' = content \o Flatten(r.frags)
          /\ sawDone' = r.done
          /\ afterDone' = afterDone + r.after
          /\ pos' = pos + n
  /\ UNCHANGED <<pcS, sent, wire>>
  /\ UNCHANGED notStream

\* lines 210-237: the status was 200; res.bytes_stream() and the try_stream!
\* are handed to the caller, send_openai_stream returns and with_retries'
\* locals are gone.  From here on the log holds the requests issued while the
\* caller polls the stream.
OpenBody ==
  /\ pcR = "done" /\ stream /\ pcS = "idle"
  /\ pcR' = "streaming"
  /\ attempt' = 0 /\ log' = <<>> /\ sleeps' = <<>> /\ wr' = NoResult
  /\ pcS' = "open"
  /\ \E s \in Scripts :
       /\ Len(s) <= MaxBodyLines
       /\ sent' = s
       /\ wire' = Serialize(s)
  /\ pos' = 0 /\ fragments' = <<>> /\ content' = <<>>
  /\ sawDone' = FALSE /\ afterDone' = 0
  /\ UNCHANGED <<stream, result>>
  /\ UNCHANGED <<truncVars, gatewayVars, storeVars, batchVars>>

\* line 216: reading a chunk fails; the error is the stream's last item
ChunkErrorReconnecting ==
  /\ pcS = "open"
  /\ pos' = 0
  /\ UNCHANGED <<pcS, sent, wire, fragments, content, sawDone, afterDone>>
  /\ UNCHANGED notStream
ChunkError ==
  /\ pcS = "open"
  /\ pcS' = "failed"
  /\ UNCHANGED <<sent, wire, pos, fragments, content, sawDone, afterDone>>
  /\ UNCHANGED notStream

\* line 215: the body is exhausted, `byte_stream.next()` is None, the stream ends
Close ==
  /\ pcS = "open"
  /\ pos = Len(wire)
  /\ pcS' = "closed"
  /\ UNCHANGED <<sent, wire, pos, fragments, content, sawDone, afterDone>>
  /\ UNCHANGED notStream

----------------------------------------------------------------------------
(* Provider registry, adapters and credential resolution *)

\* str::to_lowercase on ASCII text
UpperCase ==
  <<"A", "B", "C", "D", "E", "F", "G", "H", "I", "J", "K", "L", "M", "N",
    "O", "P", "Q", "R", "S", "T", "U", "V", "W", "X", "Y", "Z">>
LowerCase ==
  <<"a", "b", "c", "d", "e", "f", "g", "h", "i", "j", "k", "l", "m", "n",
    "o", "p", "q", "r", "s", "t", "u", "v", "w", "x", "y", "z">>
LowerOf == [c \in { UpperCase[k] : k \in 1..Len(UpperCase) } |->
              LowerCase[CHOOSE k \in 1..Len(UpperCase) : UpperCase[k] = c]]
to_lowercase(str) ==
  [i \in 1..Len(str) |-> IF str[i] \in DOMAIN LowerOf THEN LowerOf[str[i]] ELSE str[i]]

\* the provider names of lines 302-310
Openai ==
  <<"o", "p", "e", "n", "a", "i">>
Anthropic ==
  <<"a", "n", "t", "h", "r", "o", "p", "i", "c">>
Grok ==
  <<"g", "r", "o", "k">>
Xai ==
  <<"x", "a", "i">>
Groq ==
  <<"g", "r", "o", "q">>
Gemini ==
  <<"g", "e", "m", "i", "n", "i">>
Ollama ==
  <<"o", "l", "l", "a", "m", "a">>
Lmstudio ==
  <<"l", "m", "s", "t", "u", "d", "i", "o">>

\* names a caller may look up: the registered ones, some of them in other
\* letter case, and names that are not registered
MixedOpenAI ==
  <<"O", "p", "e", "n", "A", "I">>
UpperGROQ ==
  <<"G", "R", "O", "Q">>
MixedLMStudio ==
  <<"L", "M", "S", "t", "u", "d", "i", "o">>
NotARealProvider ==
  <<"n", "o", "t", "-", "a", "-", "r", "e", "a", "l", "-", "p", "r", "o",
    "v", "i", "d", "e", "r">>
LookupNames ==
  {Openai, Anthropic, Grok, Xai, Groq, Gemini, Ollama, Lmstudio,
   MixedOpenAI, UpperGROQ, MixedLMStudio, NotARealProvider, <<>>}

OpenAiAdapter == [kind |-> "OpenAiAdapter", name |-> <<>>]
NotImplementedAdapter(name) == [kind |-> "NotImplementedAdapter", name |-> name]

\* ProviderRegistry::new_with_timeout, one entry per map.insert
new_with_timeout_groq_wired ==
  (Openai :> OpenAiAdapter)
  @@ (Anthropic :> NotImplementedAdapter(Anthropic))
  @@ (Grok :> NotImplementedAdapter(Grok))
  @@ (Xai :> NotImplementedAdapter(Xai))
  @@ (Groq :> OpenAiAdapter)
  @@ (Gemini :> NotImplementedAdapter(Gemini))
  @@ (Ollama :> NotImplementedAdapter(Ollama))
  @@ (Lmstudio :> NotImplementedAdapter(Lmstudio))
new_with_timeout ==
  (Openai :> OpenAiAdapter)
  @@ (Anthropic :> NotImplementedAdapter(Anthropic))
  @@ (Grok :> NotImplementedAdapter(Grok))
  @@ (Xai :> NotImplementedAdapter(Xai))
  @@ (Groq :> NotImplementedAdapter(Groq))
  @@ (Gemini :> NotImplementedAdapter(Gemini))
  @@ (Ollama :> NotImplementedAdapter(Ollama))
  @@ (Lmstudio :> NotImplementedAdapter(Lmstudio))

\* ProviderRegistry::get: self.map.get(&name.to_lowercase())
get_or_stub(m, name) ==
  LET k == to_lowercase(name)
  IN IF k \in DOMAIN m THEN Some(m[k]) ELSE Some(NotImplementedAdapter(k))
get_exact(m, name) ==
  IF name \in DOMAIN m THEN Some(m[name]) ELSE None
get(m, name) ==
  LET k == to_lowercase(name)
  IN IF k \in DOMAIN m THEN Some(m[k]) ELSE None

NoLookup == [name |-> <<>>, adapter |-> None, made |-> FALSE]

\* NotImplementedAdapter::send / send_stream, lines 323-324
NotImplemented(name) == [kind |-> "not_implemented", name |-> name]

\* the environment variables of lines 87-91 and what a set variable holds
EnvVars == {"GROQ_API_KEY", "LMSTUDIO_API_KEY", "OPENAI_API_KEY"}
KeyValue(v) == [secret_of |-> v]
EnvValues(v) == {None, Some(KeyValue(v))}
Environments == { e \in [EnvVars -> UNION { EnvValues(v) : v \in EnvVars }] :
                    \A v \in EnvVars : e[v] \in EnvValues(v) }

\* env::var(v).ok()
env_var(e, v) == e[v]

\* line 83: "https://api.openai.com/v1"
DefaultBase ==
  <<"h", "t", "t", "p", "s", ":", "/", "/", "a", "p", "i", ".", "o", "p",
    "e", "n", "a", "i", ".", "c", "o", "m", "/", "v", "1">>
\* main.rs:797: "https://api.groq.com/openai/v1"
GroqBase ==
  <<"h", "t", "t", "p", "s", ":", "/", "/", "a", "p", "i", ".", "g", "r",
    "o", "q", ".", "c", "o", "m", "/", "o", "p", "e", "n", "a", "i", "/",
    "v", "1">>
\* main.rs:798: "http://127.0.0.1:1234/v1"
LmStudioBase ==
  <<"h", "t", "t", "p", ":", "/", "/", "1", "2", "7", ".", "0", ".", "0",
    ".", "1", ":", "1", "2", "3", "4", "/", "v", "1">>
\* values of LMSTUDIO_API_BASE (main.rs:798) whose path names another host:
\* "http://localhost:1234/api.groq.com" and "https://api.openai.com/localhost"
LocalProxyBase ==
  <<"h", "t", "t", "p", ":", "/", "/", "l", "o", "c", "a", "l", "h", "o",
    "s", "t", ":", "1", "2", "3", "4", "/", "a", "p", "i", ".", "g", "r",
    "o", "q", ".", "c", "o", "m">>
CloudPathBase ==
  <<"h", "t", "t", "p", "s", ":", "/", "/", "a", "p", "i", ".", "o", "p",
    "e", "n", "a", "i", ".", "c", "o", "m", "/", "l", "o", "c", "a", "l",
    "h", "o", "s", "t">>
ApiBases == {None, Some(GroqBase), Some(LmStudioBase), Some(LocalProxyBase), Some(CloudPathBase)}

GroqPattern ==
  <<"a", "p", "i", ".", "g", "r", "o", "q", ".", "c", "o", "m">>
LoopbackAddress ==
  <<"1", "2", "7", ".", "0", ".", "0", ".", "1">>
Localhost ==
  <<"l", "o", "c", "a", "l", "h", "o", "s", "t">>

\* str::contains
contains(str, pat) == Find(str, pat) # -1

\* lines 81-83 / 168-170: req.api_base.unwrap_or_else(..)
EffectiveBase(b) == IF b = None THEN DefaultBase ELSE b[1]

\* lines 86-92 / 173-179: which variable is read and whether it is required
KeyRule(b) ==
  IF contains(b, GroqPattern) THEN [var |-> "GROQ_API_KEY", require |-> TRUE]
  ELSE IF contains(b, LoopbackAddress) \/ contains(b, Localhost)
       THEN [var |-> "LMSTUDIO_API_KEY", require |-> FALSE]
       ELSE [var |-> "OPENAI_API_KEY", require |-> TRUE]

\* lines 87, 89, 91: the variable is read from the environment in every call
ResolveKeyCached(prev, e, v) == IF prev # None THEN prev ELSE env_var(e, v)
ResolveKey(prev, e, v) == env_var(e, v)

\* line 94 / 181: anyhow!("missing API key for base {}", base)
MissingKey(b) == [kind |-> "missing_key", base |-> b]

IdleGateway ==
  /\ map = new_with_timeout /\ lookup = NoLookup
  /\ env = [v \in EnvVars |-> None]
  /\ api_base = None /\ base = <<>> /\ api_key_opt = None
  /\ require_key = FALSE /\ reads = {}

\* a registry has been constructed; no lookup and no call has been made yet
InitGateway ==
  /\ map = new_with_timeout /\ lookup = NoLookup
  /\ env \in Environments
  /\ api_base = None /\ base = <<>> /\ api_key_opt = None
  /\ require_key = FALSE /\ reads = {}

\* line 314: registry.get(name)
Get ==
  /\ pcR = "idle"
  /\ \E name \in LookupNames :
       lookup' = [name |-> name, adapter |-> get(map, name), made |-> TRUE]
  /\ UNCHANGED <<map, env, api_base, base, api_key_opt, require_key, reads>>
  /\ UNCHANGED retryVars
  /\ UNCHANGED notGateway

\* the environment changes between two calls
SetEnv ==
  /\ pcR = "idle"
  /\ \E v \in EnvVars : \E x \in EnvValues(v) :
       /\ env[v] # x
       /\ env' = [env EXCEPT ![v] = x]
  /\ UNCHANGED <<map, lookup, api_base, base, api_key_opt, require_key, reads>>
  /\ UNCHANGED retryVars
  /\ UNCHANGED notGateway

\* lines 323-324: send / send_stream of the adapter found is the stub's
StubSend ==
  /\ pcR = "idle"
  /\ lookup.adapter # None
  /\ lookup.adapter[1].kind = "NotImplementedAdapter"
  /\ \E op \in BOOLEAN, b \in ApiBases :
       /\ stream' = op
       /\ api_base' = b
  /\ result' = Err(NotImplemented(lookup.adapter[1].name))
  /\ pcR' = "failed"
  /\ reads' = {}
  /\ UNCHANGED <<attempt, log, sleeps, wr>>
  /\ UNCHANGED <<map, lookup, env, base, api_key_opt, require_key>>
  /\ UNCHANGED notGateway

\* lines 285-286 and 81-95 / 168-182: send / send_stream of the adapter found
\* is OpenAiAdapter's; the base and the key are resolved and with_retries is
\* entered, or the call fails for the missing key
Resolve ==
  /\ pcR = "idle"
  /\ lookup.adapter # None
  /\ lookup.adapter[1].kind = "OpenAiAdapter"
  /\ \E op \in BOOLEAN, b \in ApiBases :
       LET rule == KeyRule(EffectiveBase(b))
           key == ResolveKey(api_key_opt, env, rule.var)
       IN /\ stream' = op
          /\ api_base' = b
          /\ base' = EffectiveBase(b)
          /\ api_key_opt' = key
          /\ require_key' = rule.require
          /\ reads' = {rule.var}
          /\ IF rule.require /\ key = None
             THEN /\ result' = Err(Context(MissingKey(EffectiveBase(b)), "OPENAI_API_KEY not set"))
                  /\ pcR' = "failed"
             ELSE /\ result' = NoResult
                  /\ pcR' = "with_retries"
  /\ attempt' = 0 /\ log' = <<>> /\ sleeps' = <<>> /\ wr' = NoResult
  /\ UNCHANGED <<map, lookup, env>>
  /\ UNCHANGED notGateway

\* the adapter call has returned to its caller; the locals of with_retries
\* are gone
CallReturns ==
  /\ pcR \in {"done", "failed"}
  /\ pcR' = "idle"
  /\ attempt' = 0 /\ log' = <<>> /\ sleeps' = <<>>
  /\ wr' = NoResult /\ result' = NoResult
  /\ UNCHANGED stream
  /\ UNCHANGED gatewayVars
  /\ UNCHANGED notGateway

----------------------------------------------------------------------------
(* Conversation Store *)

\* The bytes of a file are modelled as a sequence of one-character strings;
\* a key of the JSON object with its colon, and the word null, count as one
\* byte each.
Key ==
  [timestamp_ms |-> "\"timestamp_ms\":", role |-> "\"role\":",
   content |-> "\"content\":", model |-> "\"model\":", usage |-> "\"usage\":",
   prompt_tokens |-> "\"prompt_tokens\":",
   completion_tokens |-> "\"completion_tokens\":",
   total_tokens |-> "\"total_tokens\":"]
Null == "null"

DigitValue ==
  ("0" :> 0) @@ ("1" :> 1) @@ ("2" :> 2) @@ ("3" :> 3) @@ ("4" :> 4)
  @@ ("5" :> 5) @@ ("6" :> 6) @@ ("7" :> 7) @@ ("8" :> 8) @@ ("9" :> 9)

\* serde_json: an integer in decimal
RECURSIVE Decimal(_)
Decimal(n) ==
  IF n < 0 THEN <<"-">> \o Decimal(0 - n)
  ELSE IF n < 10 THEN <<CHOOSE c \in DOMAIN DigitValue : DigitValue[c] = n>>
  ELSE Decimal(n \div 10) \o Decimal(n % 10)

\* serde_json: a string between quotes, with `"`, `\` and the control
\* characters escaped
EscapeQuotesOnly(c) ==
  IF c = "\"" THEN <<"\\", "\"">>
  ELSE IF c = "\\" THEN <<"\\", "\\">>
  ELSE <<c>>
Escape(c) ==
  IF c = "\"" THEN <<"\\", "\"">>
  ELSE IF c = "\\" THEN <<"\\", "\\">>
  ELSE IF c = "\n" THEN <<"\\", "n">>
  ELSE IF c = "\r" THEN <<"\\", "r">>
  ELSE IF c = "\t" THEN <<"\\", "t">>
  ELSE <<c>>
JsonString(str) ==
  Quote \o Flatten([i \in 1..Len(str) |-> Escape(str[i])]) \o Quote

JsonOptInt(o) == IF o = None THEN <<Null>> ELSE Decimal(o[1])

\* serde_json::to_string(record), line 82
to_string(r) ==
  <<"{", Key.timestamp_ms>> \o Decimal(r.timestamp_ms)
  \o <<",", Key.role>> \o JsonString(r.role)
  \o <<",", Key.content>> \o JsonString(r.content)
  \o <<",", Key.model>>
  \o (IF r.model = None THEN <<Null>> ELSE JsonString(r.model[1]))
  \o <<",", Key.usage>>
  \o (IF r.usage = None THEN <<Null>>
      ELSE <<"{", Key.prompt_tokens>> \o JsonOptInt(r.usage[1].prompt_tokens)
           \o <<",", Key.completion_tokens>> \o JsonOptInt(r.usage[1].completion_tokens)
           \o <<",", Key.total_tokens>> \o JsonOptInt(r.usage[1].total_tokens)
           \o <<"}">>)
  \o <<"}">>

\* Parsing: every parser takes the text and a position and returns
\* [ok, val, next]
ParseFail == [ok |-> FALSE, val |-> <<>>, next |-> 1]

RECURSIVE ParseDigits(_, _, _)
ParseDigits(t, i, acc) ==
  IF i <= Len(t) /\ t[i] \in DOMAIN DigitValue
  THEN ParseDigits(t, i + 1, acc * 10 + DigitValue[t[i]])
  ELSE [ok |-> TRUE, val |-> acc, next |-> i]

ParseInt(t, i) ==
  IF i <= Len(t) /\ t[i] \in DOMAIN DigitValue THEN ParseDigits(t, i, 0)
  ELSE IF i + 1 <= Len(t) /\ t[i] = "-" /\ t[i + 1] \in DOMAIN DigitValue
       THEN LET r == ParseDigits(t, i + 1, 0)
            IN [ok |-> TRUE, val |-> 0 - r.val, next |-> r.next]
       ELSE ParseFail

\* the characters of a string up to its closing quote
RECURSIVE ParseChars(_, _, _)
ParseChars(t, i, acc) ==
  IF i > Len(t) THEN ParseFail
  ELSE IF t[i] = "\"" THEN [ok |-> TRUE, val |-> acc, next |-> i + 1]
  ELSE IF t[i] \in {"\n", "\r", "\t"} THEN ParseFail
  ELSE IF t[i] = "\\"
       THEN IF i + 1 <= Len(t) /\ t[i + 1] \in {"\"", "\\", "n", "r", "t"}
            THEN ParseChars(t, i + 2,
                            Append(acc, CASE t[i + 1] = "n" -> "\n"
                                          [] t[i + 1] = "r" -> "\r"
                                          [] t[i + 1] = "t" -> "\t"
                                          [] OTHER -> t[i + 1]))
            ELSE ParseFail
       ELSE ParseChars(t, i + 1, Append(acc, t[i]))

ParseString(t, i) ==
  IF i <= Len(t) /\ t[i] = "\"" THEN ParseChars(t, i + 1, <<>>) ELSE ParseFail

\* the single element of a singleton set; `The({ e(x) : x \in {v} })` is e
\* with x standing for the value of v
The(S) == CHOOSE x \in S : TRUE

\* Option<T>: null, or what the parser r of T found
ParseOpt(t, i, r) ==
  IF i <= Len(t) /\ t[i] = Null THEN [ok |-> TRUE, val |-> None, next |-> i + 1]
  ELSE IF r.ok THEN [ok |-> TRUE, val |-> Some(r.val), next |-> r.next]
  ELSE ParseFail

\* sequencing: p = [ok, val, next] holds the values parsed so far
Eat(p, t, byte) ==
  IF p.ok /\ p.next <= Len(t) /\ t[p.next] = byte
  THEN [p EXCEPT !.next = @ + 1]
  ELSE ParseFail
Take(p, r) ==
  IF p.ok /\ r.ok THEN [ok |-> TRUE, val |-> Append(p.val, r.val), next |-> r.next]
  ELSE ParseFail

\* the fields of the two objects, in the order #[derive(Serialize)] writes
\* them (lines 13-20 and llm.rs:30-35)
StepOf(kind, byte) == [kind |-> kind, byte |-> byte]
RecordSteps ==
  <<StepOf("eat", "{"), StepOf("eat", Key.timestamp_ms), StepOf("int", ""),
    StepOf("eat", ","), StepOf("eat", Key.role), StepOf("string", ""),
    StepOf("eat", ","), StepOf("eat", Key.content), StepOf("string", ""),
    StepOf("eat", ","), StepOf("eat", Key.model), StepOf("optstring", ""),
    StepOf("eat", ","), StepOf("eat", Key.usage)>>
UsageSteps ==
  <<StepOf("eat", "{"), StepOf("eat", Key.prompt_tokens), StepOf("optint", ""),
    StepOf("eat", ","), StepOf("eat", Key.completion_tokens), StepOf("optint", ""),
    StepOf("eat", ","), StepOf("eat", Key.total_tokens), StepOf("optint", ""),
    StepOf("eat", "}")>>

Step(s, t, p) ==
  IF ~p.ok THEN ParseFail
  ELSE IF s.kind = "eat" THEN Eat(p, t, s.byte)
  ELSE IF s.kind = "int" THEN Take(p, ParseInt(t, p.next))
  ELSE IF s.kind = "string" THEN Take(p, ParseString(t, p.next))
  ELSE IF s.kind = "optint" THEN Take(p, ParseOpt(t, p.next, ParseInt(t, p.next)))
  ELSE Take(p, ParseOpt(t, p.next, ParseString(t, p.next)))

RECURSIVE RunSteps(_, _, _)
RunSteps(steps, t, p) ==
  IF steps = <<>> THEN p
  ELSE The({ RunSteps(Tail(steps), t, q) : q \in {Step(Head(steps), t, p)} })

ParseUsage(t, i) ==
  The({ IF p.ok
        THEN [ok |-> TRUE, next |-> p.next,
              val |-> [prompt_tokens |-> p.val[1], completion_tokens |-> p.val[2],
                       total_tokens |-> p.val[3]]]
        ELSE ParseFail :
        p \in {RunSteps(UsageSteps, t, [ok |-> TRUE, val |-> <<>>, next |-> i])} })

\* serde_json::from_str::<SessionRecord>(line), lines 118 and 132: white
\* space around the object is accepted, anything else after it is an error.
\* t is the trimmed line, p the fields before the usage, u the usage, which
\* the closing brace follows and nothing else
from_str(line) ==
  The(UNION { UNION { { IF p.ok /\ u.ok /\ u.next = Len(t) /\ t[u.next] = "}"
                        THEN Ok([timestamp_ms |-> p.val[1], role |-> p.val[2],
                                 content |-> p.val[3], model |-> p.val[4],
                                 usage |-> u.val])
                        ELSE Err(DecodeError) :
                        u \in { IF p.ok THEN ParseOpt(t, p.next, ParseUsage(t, p.next))
                                ELSE ParseFail } } :
                      p \in {RunSteps(RecordSteps, t, [ok |-> TRUE, val |-> <<>>, next |-> 1])} } :
              t \in {trim(line)} })

\* conversation names, and the records a caller appends
Names == {<<"a">>, <<"b">>}
PlainText == <<"a">>
SpecialText == <<"\\", "n", "\n", "\"">>
ModelName == <<"g", "p", "t">>
SomeUsage == [prompt_tokens |-> Some(12), completion_tokens |-> None, total_tokens |-> Some(0)]
Records ==
  { [timestamp_ms |-> 7, role |-> <<"u", "s", "e", "r">>, content |-> c,
     model |-> None, usage |-> None] : c \in {PlainText, SpecialText} }
  \cup
  { [timestamp_ms |-> 12, role |-> <<"a", "s", "s", "i", "s", "t", "a", "n", "t">>, content |-> c,
     model |-> Some(ModelName), usage |-> Some(SomeUsage)] : c \in {PlainText, SpecialText} }
Needles == {<<"A">>, <<"n">>}

Unit == <<>>

\* a write to a file opened with append(true): the bytes go after the old ones
AppendBytesTruncating(old, new) == new
AppendBytes(old, new) == old \o new

\* lines 68-76: the files after create_session_if_missing(name)
Created(fs, name) == IF fs[name] = None THEN [fs EXCEPT ![name] = Some(<<>>)] ELSE fs

\* fs::read_to_string, lines 113 and 128: the text of a file, or an error
\* when the bytes are not UTF-8 ("0xFF" stands for a byte that no UTF-8
\* sequence holds)
read_to_string(bytes) ==
  IF \E i \in DOMAIN bytes : bytes[i] = "0xFF"
  THEN Err([kind |-> "invalid_data"])
  ELSE Ok(bytes)

\* lines 129-137: the loop of load_session_history over the lines of a file
RECURSIVE ParseLines(_)
ParseLines(ls) ==
  IF ls = <<>> THEN <<>>
  ELSE IF trim(Head(ls)) = <<>> THEN ParseLines(Tail(ls))
  ELSE The({ IF r.tag = "ok" THEN <<r.value>> ELSE <<>> : r \in {from_str(Head(ls))} })
       \o ParseLines(Tail(ls))

\* lines 125-138: the Vec that load_session_history returns when
\* read_to_string succeeds
load_session_history(fs, name) ==
  IF fs[name] = None THEN <<>>
  ELSE The({ ParseLines(ls) : ls \in {lines(fs[name][1])} })

\* lines 125-138: the Result of load_session_history, and whether it is an
\* error
Unreadable(fs, name) == fs[name] # None /\ read_to_string(fs[name][1]).tag = "err"
Loaded(fs, name) ==
  IF Unreadable(fs, name) THEN read_to_string(fs[name][1])
  ELSE Ok(load_session_history(fs, name))

\* lines 140-147
RECURSIVE Filter(_, _)
Filter(hist, needle_lower) ==
  IF hist = <<>> THEN <<>>
  ELSE IF contains(to_lowercase(Head(hist).content), needle_lower)
       THEN <<Head(hist)>> \o Filter(Tail(hist), needle_lower)
       ELSE Filter(Tail(hist), needle_lower)
search_session_case_sensitive(fs, name, needle) ==
  The({ Filter(hist, needle) : hist \in {load_session_history(fs, name)} })
search_session(fs, name, needle) ==
  The({ Filter(hist, needle_lower) :
        hist \in {load_session_history(fs, name)},
        needle_lower \in {to_lowercase(needle)} })

\* lines 112-123: (num_lines, last_used_ms) of a file
RECURSIVE LastTimestamp(_)
LastTimestamp(ls) ==
  IF ls = <<>> THEN None
  ELSE The({ IF r.tag = "ok" THEN Some(r.value.timestamp_ms)
             ELSE LastTimestamp(SubSeq(ls, 1, Len(ls) - 1)) :
             r \in {from_str(ls[Len(ls)])} })
read_tail_meta_records(bytes) ==
  The({ [num_lines |-> Len(ParseLines(ls)), last_used_ms |-> LastTimestamp(ls)] :
        ls \in {lines(bytes)} })
read_tail_meta(bytes) ==
  The({ [num_lines |-> Len(ls), last_used_ms |-> LastTimestamp(ls)] :
        ls \in {lines(bytes)} })

\* lines 102-106: the summary of one file (its path and size are left out)
SessionMeta(fs, name) ==
  The({ [name |-> name, last_used_ms |-> m.last_used_ms, num_lines |-> m.num_lines] :
        m \in {read_tail_meta(fs[name][1])} })

\* lines 93-110: read_dir yields the files in any order and sort_by keeps the
\* order of equal keys, so the result is any listing of the files that is
\* descending in last_used_ms (Ord of Option<i64>: None is the least value)
ListingsUnsorted(fs) ==
  UNION { { o \in [1..Cardinality(metas) -> metas] :
              \A i, j \in 1..Cardinality(metas) : i # j => o[i] # o[j] } :
          metas \in { { SessionMeta(fs, n) : n \in { x \in Names : fs[x] # None } } } }
Listings(fs) ==
  UNION { { o \in [1..Cardinality(metas) -> metas] :
              /\ \A i, j \in 1..Cardinality(metas) : i # j => o[i] # o[j]
              /\ \A i \in 1..(Cardinality(metas) - 1) :
                   \/ o[i + 1].last_used_ms = None
                   \/ /\ o[i].last_used_ms # None
                      /\ o[i + 1].last_used_ms[1] <= o[i].last_used_ms[1] } :
          metas \in { { SessionMeta(fs, n) : n \in { x \in Names : fs[x] # None } } } }

\* the number of records appended so far: each append writes one line feed
Appended(fs) ==
  LET n(name) == IF fs[name] = None THEN 0
                 ELSE Cardinality({ i \in DOMAIN fs[name][1] : <<fs[name][1][i]>> = Newline })
      RECURSIVE Sum(_)
      Sum(S) == IF S = {} THEN 0
                ELSE LET x == CHOOSE x \in S : TRUE IN n(x) + Sum(S \ {x})
  IN Sum(Names)

\* Session files of any content, as an editor, a crash or another program
\* may leave them: the lines a file is made of, each with the records it
\* holds (one or none)
LineKinds ==
  { [bytes |-> to_string(r), records |-> <<r>>] :
      r \in { x \in Records : x.content = IF x.usage = None THEN PlainText ELSE SpecialText } }
  \cup { [bytes |-> <<" ">> \o to_string(r) \o <<" ">>, records |-> <<r>>] :
           r \in { x \in Records : x.usage = None /\ x.content = PlainText } }
  \cup { [bytes |-> SubSeq(to_string(r), 1, 5), records |-> <<>>] :
           r \in { x \in Records : x.usage = None /\ x.content = PlainText } }
  \cup { [bytes |-> b, records |-> <<>>] : b \in {<<>>, <<" ">>, <<"{", "x">>, <<"0xFF">>} }

\* a file of up to MaxFileLines such lines, the last one with or without its
\* line feed, and the records it holds in file order
ReadCases ==
  UNION { { [bytes |-> Flatten([i \in 1..n |->
                        IF i = n /\ ~nl THEN ks[i].bytes ELSE ks[i].bytes \o Newline]),
             records |-> Flatten([i \in 1..n |-> ks[i].records])] :
              ks \in [1..n -> LineKinds], nl \in BOOLEAN } : n \in 0..MaxFileLines }

\* the processes that may run append_record at the same time
Procs == {1, 2}

\* no command is running and no process is inside append_record
NoTurn ==
  [cmd |-> "none", provider |-> "", session_name |-> <<>>, prompt |-> <<>>,
   answer |-> <<>>, usage |-> None]
IdleCmd ==
  /\ clock = 0 /\ pcA = "idle" /\ turn = NoTurn /\ done = <<>>
  /\ writers = [p \in Procs |-> [pc |-> "idle", name |-> <<>>, line |-> <<>>]]

IdleStore ==
  /\ files = [n \in Names |-> None] /\ active = None /\ ret = NoResult
  /\ last_op = "none" /\ last_set = None /\ IdleCmd

\* a data directory in which nothing has been stored yet
InitStore ==
  /\ files = [n \in Names |-> None] /\ active = None /\ ret = NoResult
  /\ last_op = "none" /\ last_set = None /\ IdleCmd

\* a data directory with one file of any content and, next to it, no file or
\* a file the store has written
InitFiles ==
  /\ \E c \in ReadCases,
        other \in {None} \cup { Some(to_string(r) \o Newline) :
                                  r \in { x \in Records : x.content = PlainText } } :
       files = [n \in Names |-> IF n = <<"a">> THEN Some(c.bytes) ELSE other]
  /\ active = None /\ ret = NoResult
  /\ last_op = "none" /\ last_set = None /\ IdleCmd

\* lines 68-76
CreateSessionIfMissing(name) ==
  /\ last_op' = "create_session_if_missing"
  /\ files' = Created(files, name)
  /\ ret' = Ok(Unit)
  /\ UNCHANGED <<active, last_set, cmdVars>>
  /\ UNCHANGED notStore

\* lines 78-86: the files after the two write_all calls of one writer
WriteRecord(fs, name, r) ==
  [Created(fs, name) EXCEPT ![name] =
     Some(AppendBytes(AppendBytes(Created(fs, name)[name][1], to_string(r)), Newline))]

\* lines 78-86
AppendRecord(name, r) ==
  /\ last_op' = "append_record"
  /\ Appended(files) < MaxAppends
  /\ files' = WriteRecord(files, name, r)
  /\ ret' = Ok(Unit)
  /\ UNCHANGED <<active, last_set, cmdVars>>
  /\ UNCHANGED notStore

\* lines 125-138
LoadSessionHistory ==
  /\ last_op' = "load_session_history"
  /\ \E name \in Names : ret' = Loaded(files, name)
  /\ UNCHANGED <<files, active, last_set, cmdVars>>
  /\ UNCHANGED notStore

\* lines 140-147: the `?` of line 141 passes the error of the load on
SearchSession ==
  /\ last_op' = "search_session"
  /\ \E name \in Names, needle \in Needles :
       ret' = IF Unreadable(files, name) THEN Loaded(files, name)
              ELSE Ok(search_session(files, name, needle))
  /\ UNCHANGED <<files, active, last_set, cmdVars>>
  /\ UNCHANGED notStore

\* lines 93-110: the `?` of line 105 ends the listing at the first file that
\* read_tail_meta cannot read
ListSessionsMetadata ==
  /\ last_op' = "list_sessions_metadata"
  /\ IF \E n \in Names : Unreadable(files, n)
     THEN ret' = Err([kind |-> "invalid_data"])
     ELSE \E l \in Listings(files) : ret' = Ok(l)
  /\ UNCHANGED <<files, active, last_set, cmdVars>>
  /\ UNCHANGED notStore

\* the names a caller passes to set_active_session
PointerNames == Names \cup {<<" ", "a", "\n">>}

\* lines 54-59: fs::write replaces the content of active_session
SetActiveSessionKeepFirst ==
  /\ last_op' = "set_active_session"
  /\ \E name \in PointerNames :
       /\ active' = IF active = None THEN Some(name) ELSE active
       /\ last_set' = Some(name)
  /\ ret' = Ok(Unit)
  /\ UNCHANGED <<files, cmdVars>>
  /\ UNCHANGED notStore
SetActiveSession ==
  /\ last_op' = "set_active_session"
  /\ \E name \in PointerNames : active' = Some(name) /\ last_set' = Some(name)
  /\ ret' = Ok(Unit)
  /\ UNCHANGED <<files, cmdVars>>
  /\ UNCHANGED notStore

\* lines 61-66
GetActiveSessionOrDefault ==
  /\ last_op' = "get_active_session"
  /\ ret' = Ok(IF active = None THEN Some(<<"a">>) ELSE Some(trim(active[1])))
  /\ UNCHANGED <<files, active, last_set, cmdVars>>
  /\ UNCHANGED notStore
GetActiveSession ==
  /\ last_op' = "get_active_session"
  /\ ret' = Ok(IF active = None THEN None ELSE Some(trim(active[1])))
  /\ UNCHANGED <<files, active, last_set, cmdVars>>
  /\ UNCHANGED notStore

\* session::now_ms, lines 88-91: a clock before the epoch reads as 0 (the
\* cap at i64::MAX is beyond MaxClock)
now_ms_reversed(t) == IF t < 0 THEN 0 ELSE MaxClock - t
now_ms(t) == IF t < 0 THEN 0 ELSE t

\* the clock of the machine, which never goes back
Tick ==
  /\ clock < MaxClock
  /\ clock' = clock + 1
  /\ UNCHANGED <<files, active, ret, last_op, last_set, pcA, turn, done, writers>>
  /\ UNCHANGED notStore

\* the words of a prompt: a text, or nothing but a blank
Prompts == {PlainText, <<" ">>}

\* main.rs:991 and 1062: the files after `adapter.send(req)` has failed and
\* `?` has left the command
AfterFailedSendUserKept(fs, name, prompt, t) ==
  WriteRecord(fs, name, [timestamp_ms |-> now_ms(t), role |-> <<"u", "s", "e", "r">>,
                         content |-> prompt, model |-> None, usage |-> None])
AfterFailedSend(fs, name, prompt, t) == fs

\* main.rs:913-1010, cmd_ask up to its first append_record.  The arguments:
\* --session, the prompt, the effective provider in lower case, --json,
\* --stream, and whether the adapter call succeeds.
cmd_ask ==
  /\ pcA = "idle"
  /\ Len(done) < MaxTurns
  /\ last_op' = "cmd_ask"
  /\ \E session \in {None, Some(<<"a">>)}, prompt \in Prompts,
        provider \in {"mock", "openai", "groq", "anthropic"},
        json \in BOOLEAN, args_stream \in BOOLEAN, send_ok \in BOOLEAN :
       LET session_name ==
             IF session # None THEN session
             ELSE IF active = None THEN None ELSE Some(trim(active[1]))
           Returns(r) == ret' = r /\ UNCHANGED <<files, pcA, turn, done>>
           Appends(answer, usage) ==
             /\ pcA' = "user"
             /\ turn' = [cmd |-> "ask", provider |-> provider,
                         session_name |-> session_name[1],
                         prompt |-> prompt, answer |-> answer, usage |-> usage]
             /\ UNCHANGED <<files, ret, done>>
       IN IF trim(prompt) = <<>> THEN Returns(Err([kind |-> "empty_prompt"]))
          ELSE IF provider = "mock"
          THEN IF session_name # None
               THEN Appends(<<"[", "s", "t", "u", "b", " ", "a", "n", "s", "w", "e", "r", "]", " ">>
                            \o prompt, None)
               ELSE Returns(Ok(Unit))
          ELSE IF session_name # None /\ Unreadable(files, session_name[1])
          THEN Returns(Loaded(files, session_name[1]))
          ELSE IF provider \notin {"openai", "groq", "lmstudio"}
          THEN Returns(Err([kind |-> "unsupported_provider"]))
          ELSE IF ~send_ok
          THEN /\ ret' = Err([kind |-> "provider"])
               /\ files' = IF session_name = None THEN files
                            ELSE AfterFailedSend(files, session_name[1], prompt, clock)
               /\ UNCHANGED <<pcA, turn, done>>
          ELSE IF ~json /\ args_stream
          THEN \* lines 978-987: the fragments are printed, nothing is stored
               /\ ret' = Ok(Unit)
               /\ done' = IF session_name = None THEN done
                          ELSE Append(done, [session_name |-> session_name[1],
                                             stream |-> TRUE, prompt |-> prompt])
               /\ UNCHANGED <<files, pcA, turn>>
          ELSE IF session_name # None
               THEN Appends(<<"o", "k">>, Some(SomeUsage))
               ELSE Returns(Ok(Unit))
  /\ UNCHANGED <<active, last_set, clock, writers>>
  /\ UNCHANGED notStore

\* main.rs:1016-1033, cmd_chat up to its loop
cmd_chat ==
  /\ pcA = "idle"
  /\ last_op' = "cmd_chat"
  /\ \E session \in {None, Some(<<"a">>)}, provider \in {"mock", "openai", "anthropic"} :
       LET session_name ==
             IF session # None THEN session
             ELSE IF active = None THEN None ELSE Some(trim(active[1]))
       IN IF session_name = None
          THEN /\ ret' = Err([kind |-> "no_session"])
               /\ UNCHANGED <<files, active, last_set, pcA, turn>>
          ELSE /\ files' = Created(files, session_name[1])
               /\ active' = session_name
               /\ last_set' = session_name
               /\ pcA' = "chat"
               /\ turn' = [NoTurn EXCEPT !.cmd = "chat", !.provider = provider,
                                         !.session_name = session_name[1]]
               /\ UNCHANGED ret
  /\ UNCHANGED <<clock, done, writers>>
  /\ UNCHANGED notStore

\* main.rs:1035-1066, one pass of the loop of cmd_chat up to its first
\* append_record: end of input or an exit word, an empty line, or a prompt
ChatLine ==
  /\ pcA = "chat"
  /\ last_op' = "cmd_chat"
  /\ \E input \in {"eof", "prompt"}, prompt \in Prompts, send_ok \in BOOLEAN :
       LET Appends(answer, usage) ==
             /\ Len(done) < MaxTurns
             /\ pcA' = "user"
             /\ turn' = [turn EXCEPT !.prompt = trim(prompt), !.answer = answer,
                                     !.usage = usage]
             /\ UNCHANGED <<files, ret>>
           Leaves(r) == pcA' = "idle" /\ turn' = NoTurn /\ ret' = r /\ files' = files
       IN IF input = "eof" THEN Leaves(Ok(Unit))
          ELSE IF trim(prompt) = <<>> THEN UNCHANGED <<files, pcA, turn, ret>>
          ELSE IF turn.provider = "mock"
          THEN Appends(<<"[", "s", "t", "u", "b", " ", "c", "h", "a", "t", "]", " ">>
                       \o trim(prompt), None)
          ELSE IF Unreadable(files, turn.session_name)
          THEN Leaves(Loaded(files, turn.session_name))
          ELSE IF ~send_ok
          THEN /\ pcA' = "idle" /\ turn' = NoTurn /\ ret' = Err([kind |-> "provider"])
               /\ files' = AfterFailedSend(files, turn.session_name, trim(prompt), clock)
          ELSE Appends(<<"o", "k">>, Some(SomeUsage))
  /\ UNCHANGED <<active, last_set, clock, done, writers>>
  /\ UNCHANGED notStore

\* the user record of a turn: main.rs:937-938, 990-991, 1045-1046, 1060-1061
TurnUserSkipped ==
  /\ pcA = "user"
  /\ pcA' = "assistant"
  /\ last_op' = "append_record"
  /\ UNCHANGED <<files, active, ret, last_set, clock, turn, done, writers>>
  /\ UNCHANGED notStore
TurnUser ==
  /\ pcA = "user"
  /\ files' = WriteRecord(files, turn.session_name,
                          [timestamp_ms |-> now_ms(clock), role |-> <<"u", "s", "e", "r">>,
                           content |-> turn.prompt, model |-> None, usage |-> None])
  /\ pcA' = "assistant"
  /\ last_op' = "append_record"
  /\ UNCHANGED <<active, ret, last_set, clock, turn, done, writers>>
  /\ UNCHANGED notStore

\* the assistant record of a turn: main.rs:940-941, 992-993, 1048-1049,
\* 1062-1063; cmd_ask then returns, cmd_chat goes on with its loop
TurnAssistant ==
  /\ pcA = "assistant"
  /\ files' = WriteRecord(files, turn.session_name,
                          [timestamp_ms |-> now_ms(clock),
                           role |-> <<"a", "s", "s", "i", "s", "t", "a", "n", "t">>,
                           content |-> turn.answer, model |-> Some(ModelName),
                           usage |-> turn.usage])
  /\ done' = Append(done, [session_name |-> turn.session_name, stream |-> FALSE,
                           prompt |-> turn.prompt])
  /\ IF turn.cmd = "ask"
     THEN pcA' = "idle" /\ turn' = NoTurn /\ ret' = Ok(Unit)
     ELSE /\ pcA' = "chat"
          /\ turn' = [turn EXCEPT !.prompt = <<>>, !.answer = <<>>, !.usage = None]
          /\ UNCHANGED ret
  /\ last_op' = "append_record"
  /\ UNCHANGED <<active, last_set, clock, writers>>
  /\ UNCHANGED notStore

\* a data directory in which nothing has been stored yet, and a clock that
\* stands before the epoch
InitTurns ==
  /\ files = [n \in Names |-> None] /\ active = None /\ ret = NoResult
  /\ last_op = "none" /\ last_set = None
  /\ clock = -1 /\ pcA = "idle" /\ turn = NoTurn /\ done = <<>>
  /\ writers = [p \in Procs |-> [pc |-> "idle", name |-> <<>>, line |-> <<>>]]

\* append_record run by several processes at once, no lock being taken
\* (lines 78-86); each write_all is one write at the end of the file
\* (O_APPEND).  Lines 79-82: the file is created and opened, the record is
\* encoded.
WriterOpen(p) ==
  /\ writers[p].pc = "idle"
  /\ \E name \in Names, r \in Records :
       /\ files' = Created(files, name)
       /\ writers' = [writers EXCEPT ![p] =
                        [pc |-> "line", name |-> name, line |-> to_string(r)]]
  /\ last_op' = "append_record"
  /\ UNCHANGED <<active, ret, last_set, clock, pcA, turn, done>>
  /\ UNCHANGED notStore

\* line 83: f.write_all(line.as_bytes())
WriterLineReplacing(p) ==
  /\ writers[p].pc = "line"
  /\ files' = [files EXCEPT ![writers[p].name] = Some(writers[p].line)]
  /\ writers' = [writers EXCEPT ![p].pc = "newline"]
  /\ last_op' = "append_record"
  /\ UNCHANGED <<active, ret, last_set, clock, pcA, turn, done>>
  /\ UNCHANGED notStore
WriterLine(p) ==
  /\ writers[p].pc = "line"
  /\ files' = [files EXCEPT ![writers[p].name] = Some(AppendBytes(@[1], writers[p].line))]
  /\ writers' = [writers EXCEPT ![p].pc = "newline"]
  /\ last_op' = "append_record"
  /\ UNCHANGED <<active, ret, last_set, clock, pcA, turn, done>>
  /\ UNCHANGED notStore

\* lines 84-85: f.write_all(b"\n"), Ok(())
WriterNewline(p) ==
  /\ writers[p].pc = "newline"
  /\ files' = [files EXCEPT ![writers[p].name] = Some(AppendBytes(@[1], Newline))]
  /\ writers' = [writers EXCEPT ![p].pc = "done"]
  /\ ret' = Ok(Unit)
  /\ last_op' = "append_record"
  /\ UNCHANGED <<active, last_set, clock, pcA, turn, done>>
  /\ UNCHANGED notStore

----------------------------------------------------------------------------
(* How a failed provider call reaches the user (main.rs) *)

\* anyhow::Error's to_string(): the outermost message only, the cause under
\* a .context(..) annotation is not part of it.  A transport error shows
\* reqwest's text, a provider error the text of llm.rs:147 with the status
\* as StatusCode displays it.
Display(e) ==
  LET Reason(s) ==
        IF s = 200 THEN <<"O", "K">>
        ELSE IF s = 204 THEN <<"N", "o", " ", "C", "o", "n", "t", "e", "n", "t">>
        ELSE IF s = 400 THEN <<"B", "a", "d", " ", "R", "e", "q", "u", "e", "s",
                           "t">>
        ELSE <<"I", "n", "t", "e", "r", "n", "a", "l", " ", "S", "e", "r",
               "v", "e", "r", " ", "E", "r", "r", "o", "r">>
      BodyChars(text) ==
        IF text = "" THEN <<>>
        ELSE IF text = "json" THEN <<"{", "}">>
        ELSE <<"o", "o", "p", "s">>
  IN IF e.kind = "message" THEN e.msg
     ELSE IF e.kind = "context"
     THEN <<"r", "e", "q", "u", "e", "s", "t", " ", "f", "a", "i", "l", "e",
            "d", " ", "a", "f", "t", "e", "r", " ", "r", "e", "t", "r", "i",
            "e", "s">>
     ELSE IF e.kind = "transport"
     THEN IF e.cause = "timeout"
          THEN <<"e", "r", "r", "o", "r", " ", "s", "e", "n", "d", "i", "n",
                 "g", " ", "r", "e", "q", "u", "e", "s", "t", ":", " ", "o",
                 "p", "e", "r", "a", "t", "i", "o", "n", " ", "t", "i", "m",
                 "e", "d", " ", "o", "u", "t">>
          ELSE <<"e", "r", "r", "o", "r", " ", "s", "e", "n", "d", "i", "n",
                 "g", " ", "r", "e", "q", "u", "e", "s", "t", ":", " ", "c",
                 "o", "n", "n", "e", "c", "t", "i", "o", "n", " ", "r", "e",
                 "f", "u", "s", "e", "d">>
     ELSE IF e.kind = "provider"
     THEN <<"o", "p", "e", "n", "a", "i", " ", "e", "r", "r", "o", "r", " ">>
          \o Decimal(e.status) \o <<" ">> \o Reason(e.status) \o <<":", " ">>
          \o BodyChars(e.body)
     ELSE <<"e", "r", "r", "o", "r", " ", "d", "e", "c", "o", "d", "i", "n",
            "g", " ", "r", "e", "s", "p", "o", "n", "s", "e", " ", "b", "o",
            "d", "y">>

\* anyhow::anyhow!(msg)
Message(msg) == [kind |-> "message", msg |-> msg]

\* main.rs:1318-1328
map_provider_error(e) ==
  IF contains(Display(e), <<"O", "P", "E", "N", "A", "I", "_", "A", "P", "I",
                         "_", "K", "E", "Y">>)
  THEN Message(<<"m", "i", "s", "s", "i", "n", "g", " ", "O", "P", "E", "N",
                 "A", "I", "_", "A", "P", "I", "_", "K", "E", "Y", " ", "(",
                 "s", "e", "t", " ", "i", "n", " ", ".", "e", "n", "v", " ",
                 "o", "r", " ", "e", "n", "v", "i", "r", "o", "n", "m", "e",
                 "n", "t", ")">>)
  ELSE IF contains(Display(e), <<"t", "i", "m", "e", "d", " ", "o", "u", "t">>)
  THEN Message(<<"r", "e", "q", "u", "e", "s", "t", " ", "t", "i", "m", "e",
                 "d", " ", "o", "u", "t", ";", " ", "t", "r", "y", " ", "-",
                 "-", "t", "i", "m", "e", "o", "u", "t", " ", "o", "r", " ",
                 "c", "h", "e", "c", "k", " ", "n", "e", "t", "w", "o", "r",
                 "k">>)
  ELSE e

\* main.rs:760-793: the first row with a pattern found in the message in
\* lower case gives the code
classify_error(e) ==
  LET rows ==
        <<
         [code |-> "file_not_found",
          pats |-> {
                  <<"f", "i", "l", "e", " ", "n", "o", "t", " ", "f", "o",
                    "u", "n", "d">>}],
         [code |-> "missing_input",
          pats |-> {
                  <<"e", "m", "p", "t", "y", " ", "d", "i", "f", "f", " ",
                    "f", "i", "l", "e">>,
                  <<"e", "m", "p", "t", "y", " ", "g", "o", "a", "l">>}],
         [code |-> "invalid_args",
          pats |-> {
                  <<"i", "n", "v", "a", "l", "i", "d", " ", "-", "-", "r",
                    "a", "n", "g", "e">>,
                  <<"i", "n", "v", "a", "l", "i", "d", " ", "r", "a", "n",
                    "g", "e">>,
                  <<"i", "n", "v", "a", "l", "i", "d", " ", "s", "t", "a",
                    "r", "t">>,
                  <<"i", "n", "v", "a", "l", "i", "d", " ", "e", "n", "d">>}],
         [code |-> "missing_api_key",
          pats |-> {
                  <<"m", "i", "s", "s", "i", "n", "g", " ", "o", "p", "e",
                    "n", "a", "i", "_", "a", "p", "i", "_", "k", "e", "y">>}],
         [code |-> "timeout",
          pats |-> {
                  <<"t", "i", "m", "e", "d", " ", "o", "u", "t">>,
                  <<"t", "i", "m", "e", "o", "u", "t">>}],
         [code |-> "provider_unsupported",
          pats |-> {
                  <<"u", "n", "s", "u", "p", "p", "o", "r", "t", "e", "d",
                    " ", "p", "r", "o", "v", "i", "d", "e", "r">>}],
         [code |-> "approval_required",
          pats |-> {
                  <<"a", "p", "p", "r", "o", "v", "a", "l", " ", "r", "e",
                    "q", "u", "i", "r", "e", "d">>}],
         [code |-> "blocked_action",
          pats |-> {
                  <<"b", "l", "o", "c", "k", "e", "d", " ", "a", "c", "t",
                    "i", "o", "n">>}],
         [code |-> "network_error",
          pats |-> {
                  <<"n", "e", "t", "w", "o", "r", "k">>,
                  <<"d", "n", "s">>,
                  <<"c", "o", "n", "n", "e", "c", "t", "i", "o", "n", " ",
                    "r", "e", "f", "u", "s", "e", "d">>}],
         [code |-> "session_not_found",
          pats |-> {
                  <<"s", "e", "s", "s", "i", "o", "n", " ", "n", "o", "t",
                    " ", "f", "o", "u", "n", "d">>}]
        >>
      msg == to_lowercase(Display(e))
      hits == { k \in 1..Len(rows) : \E p \in rows[k].pats : contains(msg, p) }
  IN IF hits = {} THEN "unknown"
     ELSE rows[CHOOSE k \in hits : \A j \in hits : k <= j].code

\* main.rs:991 and 746-755: the error of the adapter goes through
\* map_provider_error and `?` up to main, which prints its code and message
ReportError ==
  /\ pcR = "failed"
  /\ last_op = "none"
  /\ ret' = [code |-> classify_error(map_provider_error(result.error)),
             message |-> Display(map_provider_error(result.error))]
  /\ last_op' = "main"
  /\ UNCHANGED <<files, active, last_set, cmdVars>>
  /\ UNCHANGED notStore

\* main.rs:2007-2012, `session switch NAME`: the value returned is the error,
\* or the line printed
SessionLine(found, name) ==
  IF found THEN <<"a", "c", "t", "i", "v", "e", " ", "s", "e", "s", "s", "i",
                  "o", "n", ":", " ">> \o name
  ELSE <<"s", "e", "s", "s", "i", "o", "n", " ", "n", "o", "t", " ", "f",
         "o", "u", "n", "d", ":", " ">> \o name
SessionSwitchUnchecked(name) ==
  /\ last_op' = "session_switch"
  /\ active' = Some(name) /\ last_set' = Some(name)
  /\ ret' = Ok(SessionLine(TRUE, name))
  /\ UNCHANGED <<files, cmdVars>>
  /\ UNCHANGED notStore
SessionSwitch(name) ==
  /\ last_op' = "session_switch"
  /\ IF files[name] = None
     THEN /\ ret' = Err(Message(SessionLine(FALSE, name)))
          /\ UNCHANGED <<active, last_set>>
     ELSE /\ active' = Some(name) /\ last_set' = Some(name)
          /\ ret' = Ok(SessionLine(TRUE, name))
  /\ UNCHANGED <<files, cmdVars>>
  /\ UNCHANGED notStore

----------------------------------------------------------------------------
(* Chunking (io.rs) and the batch summarize (main.rs) *)

\* io.rs:38-54: the while loop over the bytes and the push of what is left.
\* at (the code's idx), start and last_break are 0-based as in the code; acc
\* is the code's `chunks`.
RECURSIVE ChunkLoop(_, _, _, _, _, _)
ChunkLoop(bytes, max_chars, at, start, last_break, acc) ==
  IF at >= Len(bytes)
  THEN IF start < Len(bytes) THEN Append(acc, SubSeq(bytes, start + 1, Len(bytes)))
       ELSE acc
  ELSE LET lb == IF bytes[at + 1] \in {"\n", " "} THEN at ELSE last_break
       IN IF at - start >= max_chars
          THEN LET split == IF lb > start THEN lb ELSE at
               IN ChunkLoop(bytes, max_chars, at + 1, split + 1, split + 1,
                            Append(acc, SubSeq(bytes, start + 1, split)))
          ELSE ChunkLoop(bytes, max_chars, at + 1, start, lb, acc)

\* io.rs:25-60: the chunks with their indices
chunk_text_for_token_limit(bytes, per_chunk) ==
  LET Enumerate(cs) == [i \in 1..Len(cs) |-> [index |-> i - 1, text |-> cs[i]]]
  IN IF bytes = <<>> THEN <<>>
     ELSE IF per_chunk * 4 = 0 THEN Enumerate(<< <<>> >>)
     ELSE Enumerate(ChunkLoop(bytes, per_chunk * 4, 0, 0, 0, <<>>))

\* texts of words, blanks and line feeds
ChunkTexts ==
  UNION { [1..n -> {"a", " ", "\n"}] : n \in 0..MaxText }

\* texts that make one, two and three chunks of four bytes, and no text
SummaryTexts ==
  { <<>>,
    <<"a", "a">>,
    <<"a", "a", "a", " ", "a", "a">>,
    <<"a", "a", "a", " ", "a", "a", "a", " ", "a", "a">> }

IdleBatch ==
  /\ input_text = <<>> /\ max_tokens_per_chunk = 0 /\ eff_provider = ""
  /\ chunks = <<>> /\ pcB = "idle" /\ tasks = <<>> /\ partials = <<>> /\ calls = <<>>

\* a text and a limit, before the call of chunk_text_for_token_limit
InitChunk ==
  /\ input_text \in ChunkTexts
  /\ max_tokens_per_chunk \in 0..MaxChunkTokens
  /\ eff_provider = ""
  /\ chunks = <<>> /\ pcB = "call" /\ tasks = <<>> /\ partials = <<>> /\ calls = <<>>

\* io.rs:25-60, the call
ChunkText ==
  /\ pcB = "call" /\ eff_provider = ""
  /\ chunks' = chunk_text_for_token_limit(input_text, max_tokens_per_chunk)
  /\ pcB' = "chunked"
  /\ last_op' = "chunk_text_for_token_limit"
  /\ UNCHANGED <<input_text, max_tokens_per_chunk, eff_provider, tasks, partials, calls, ret>>
  /\ UNCHANGED notBatch

\* the file has been read and the effective settings are resolved
\* (main.rs:1072-1083); --max-tokens 1
InitSummarize ==
  /\ input_text \in SummaryTexts
  /\ max_tokens_per_chunk = 1
  /\ eff_provider \in {"mock", "openai"}
  /\ chunks = <<>> /\ pcB = "call" /\ tasks = <<>> /\ partials = <<>> /\ calls = <<>>

\* [a, b, c].join(sep)
RECURSIVE join(_, _)
join(strs, sep) ==
  IF strs = <<>> THEN <<>>
  ELSE IF Len(strs) = 1 THEN strs[1]
  ELSE strs[1] \o sep \o join(Tail(strs), sep)

\* main.rs:1084-1128: the chunks; the mock path answers at once, the real
\* path spawns one task per chunk
Summarize ==
  /\ pcB = "call" /\ eff_provider # ""
  /\ chunks' = chunk_text_for_token_limit(input_text, max_tokens_per_chunk)
  /\ last_op' = "cmd_summarize"
  /\ IF eff_provider = "mock"
     THEN /\ ret' = Ok(join([i \in 1..Len(chunks') |->
                               join(SubSeq(lines(trim(chunks'[i].text)), 1, 1), <<" ">>)],
                            <<" ", "|", " ">>))
          /\ pcB' = "done"
          /\ UNCHANGED tasks
     ELSE /\ tasks' = [i \in 1..Len(chunks') |-> "spawned"]
          /\ pcB' = "join"
          /\ UNCHANGED ret
  /\ UNCHANGED <<input_text, max_tokens_per_chunk, eff_provider, partials, calls>>
  /\ UNCHANGED notBatch

\* main.rs:1123-1126, in a spawned task: the request of chunk i is sent
TaskSend(i) ==
  /\ pcB = "join"
  /\ tasks[i] = "spawned"
  /\ tasks' = [tasks EXCEPT ![i] = "sent"]
  /\ calls' = Append(calls, [kind |-> "chunk", index |-> i - 1])
  /\ UNCHANGED <<input_text, max_tokens_per_chunk, eff_provider, chunks, pcB, partials,
                 ret, last_op>>
  /\ UNCHANGED notBatch

\* main.rs:1126-1127, in a spawned task: send returns, the task ends with
\* the summary of its chunk or with the error
TaskReturn(i) ==
  /\ pcB = "join"
  /\ tasks[i] = "sent"
  /\ \E ok \in BOOLEAN : tasks' = [tasks EXCEPT ![i] = IF ok THEN "ok" ELSE "failed"]
  /\ UNCHANGED <<input_text, max_tokens_per_chunk, eff_provider, chunks, pcB, partials,
                 calls, ret, last_op>>
  /\ UNCHANGED notBatch

\* main.rs:1131: `partials.push(t.await??)` for the next task in order
JoinLenient ==
  /\ pcB = "join"
  /\ Len(partials) < Len(tasks)
  /\ tasks[Len(partials) + 1] \in {"ok", "failed"}
  /\ partials' = Append(partials, Len(partials))
  /\ UNCHANGED <<pcB, ret>>
  /\ last_op' = "cmd_summarize"
  /\ UNCHANGED <<input_text, max_tokens_per_chunk, eff_provider, chunks, tasks, calls>>
  /\ UNCHANGED notBatch
Join ==
  /\ pcB = "join"
  /\ Len(partials) < Len(tasks)
  /\ tasks[Len(partials) + 1] \in {"ok", "failed"}
  /\ IF tasks[Len(partials) + 1] = "ok"
     THEN /\ partials' = Append(partials, Len(partials))
          /\ UNCHANGED <<pcB, ret>>
     ELSE /\ pcB' = "failed"
          /\ ret' = Err([kind |-> "provider"])
          /\ UNCHANGED partials
  /\ last_op' = "cmd_summarize"
  /\ UNCHANGED <<input_text, max_tokens_per_chunk, eff_provider, chunks, tasks, calls>>
  /\ UNCHANGED notBatch

\* main.rs:1132-1144: every task has been awaited; one chunk or none needs
\* no synthesis, more chunks are synthesized with one more request
Synthesize ==
  /\ pcB = "join"
  /\ Len(partials) = Len(tasks)
  /\ last_op' = "cmd_summarize"
  /\ IF Len(chunks) <= 1
     THEN /\ pcB' = "done"
          /\ ret' = Ok(partials)
          /\ UNCHANGED calls
     ELSE /\ pcB' = "synthesis"
          /\ calls' = Append(calls, [kind |-> "synthesis", index |-> Len(chunks)])
          /\ UNCHANGED ret
  /\ UNCHANGED <<input_text, max_tokens_per_chunk, eff_provider, chunks, tasks, partials>>
  /\ UNCHANGED notBatch

\* main.rs:1144: the synthesis request returns
SynthesisReturn ==
  /\ pcB = "synthesis"
  /\ last_op' = "cmd_summarize"
  /\ \E ok \in BOOLEAN :
       IF ok THEN pcB' = "done" /\ ret' = Ok(<<"synthesis">>)
       ELSE pcB' = "failed" /\ ret' = Err([kind |-> "provider"])
  /\ UNCHANGED <<input_text, max_tokens_per_chunk, eff_provider, chunks, tasks, partials,
                 calls>>
  /\ UNCHANGED notBatch

----------------------------------------------------------------------------
(* Specifications *)

InitT == InitTrunc /\ IdleRetry /\ IdleStream /\ IdleGateway /\ IdleStore /\ IdleBatch
NextTrunc == Convert \/ LoopKeep \/ LoopBreak \/ Return
SpecTrunc == InitT /\ [][NextTrunc]_vars

InitR == IdleTrunc /\ InitRetry /\ IdleStream /\ IdleGateway /\ IdleStore /\ IdleBatch
NextRetry == InvokeOk \/ InvokeErr \/ Wake \/ BailOnStatus \/ Proceed
SpecRetry == InitR /\ [][NextRetry]_vars

NextReport == NextRetry \/ ReportError
SpecReport == InitR /\ [][NextReport]_vars

InitS == IdleTrunc /\ IdleRetry /\ InitStream /\ IdleGateway /\ IdleStore /\ IdleBatch
NextStream == ReadChunk \/ ChunkError \/ Close
SpecStream == InitS /\ [][NextStream]_vars

NextSendStream == NextRetry \/ OpenBody \/ NextStream
SpecSendStream == InitR /\ [][NextSendStream]_vars

InitG == IdleTrunc /\ IdleRetry /\ IdleStream /\ InitGateway /\ IdleStore /\ IdleBatch
NextGateway ==
  \/ Get \/ SetEnv \/ StubSend \/ Resolve \/ CallReturns
  \/ InvokeOk \/ InvokeErr \/ Wake \/ BailOnStatus \/ Proceed
SpecGateway == InitG /\ [][NextGateway]_vars

InitSt == IdleTrunc /\ IdleRetry /\ IdleStream /\ IdleGateway /\ InitStore /\ IdleBatch
NextStore ==
  \/ \E name \in Names : CreateSessionIfMissing(name)
  \/ \E name \in Names, r \in Records : AppendRecord(name, r)
  \/ LoadSessionHistory
  \/ SearchSession \/ ListSessionsMetadata \/ SetActiveSession \/ GetActiveSession
SpecStore == InitSt /\ [][NextStore]_vars

NextSession ==
  \/ \E name \in Names, r \in Records : AppendRecord(name, r)
  \/ \E name \in Names : SessionSwitch(name)
  \/ SetActiveSession \/ GetActiveSession
SpecSession == InitSt /\ [][NextSession]_vars

NextWriters ==
  \/ \E p \in Procs : WriterOpen(p)
  \/ \E p \in Procs : WriterLine(p)
  \/ \E p \in Procs : WriterNewline(p)
SpecWriters == InitSt /\ [][NextWriters]_vars

InitTu == IdleTrunc /\ IdleRetry /\ IdleStream /\ IdleGateway /\ InitTurns /\ IdleBatch
NextTurns == cmd_ask \/ cmd_chat \/ ChatLine \/ TurnUser \/ TurnAssistant \/ Tick
SpecTurns == InitTu /\ [][NextTurns]_vars

InitCh == IdleTrunc /\ IdleRetry /\ IdleStream /\ IdleGateway /\ IdleStore /\ InitChunk
NextChunk == ChunkText
SpecChunk == InitCh /\ [][NextChunk]_vars

InitSu == IdleTrunc /\ IdleRetry /\ IdleStream /\ IdleGateway /\ IdleStore /\ InitSummarize
NextSummarize ==
  \/ Summarize
  \/ \E i \in 1..Len(tasks) : TaskSend(i)
  \/ \E i \in 1..Len(tasks) : TaskReturn(i)
  \/ Join \/ Synthesize \/ SynthesisReturn
SpecSummarize == InitSu /\ [][NextSummarize]_vars

InitRd == IdleTrunc /\ IdleRetry /\ IdleStream /\ IdleGateway /\ InitFiles /\ IdleBatch
NextRead ==
  LoadSessionHistory \/ SearchSession \/ ListSessionsMetadata \/ GetActiveSession
SpecRead == InitRd /\ [][NextRead]_vars

----------------------------------------------------------------------------
(* Properties of the Context Builder, checked under SpecTrunc *)

NewMessage == ChatMessage("user", new_user_message)

\* history + [new message], as the caller sees the input
InputMessages ==
  [i \in 1..Len(history) |-> [role |-> history[i].role, content |-> history[i].content]]
  \o <<NewMessage>>

RECURSIVE IsSubSeq(_, _)
IsSubSeq(s, t) ==
  IF s = <<>> THEN TRUE
  ELSE IF t = <<>> THEN FALSE
  ELSE IF Head(s) = Head(t) THEN IsSubSeq(Tail(s), Tail(t))
  ELSE IsSubSeq(s, Tail(t))

\* estimated cost of a text as the spec states it: ceil(characters / 4)
CeilQuarter(text) == CHOOSE c \in 0..Len(text) : 4 * c >= Len(text) /\ 4 * (c - 1) < Len(text)

RECURSIVE CostOf(_)
CostOf(ms) == IF ms = <<>> THEN 0 ELSE CeilQuarter(Head(ms).content) + CostOf(Tail(ms))

\* C1: for every history, new text and budget >= 0 the returned list is
\* non-empty and its last element is the new user message (role "user",
\* content the new text), even when that message alone exceeds the budget.
C1_NewestTurnKept ==
  pcT = "returned" =>
    /\ kept # <<>>
    /\ kept[Len(kept)].role = "user"
    /\ kept[Len(kept)].content = new_user_message

\* C1 witness: a returned call with a non-empty history whose new message
\* alone costs more than the budget.
C1_Witness ==
  /\ pcT = "returned"
  /\ history # <<>>
  /\ CeilQuarter(new_user_message) > max_tokens

\* C2: the returned list is an order-preserving selection of
\* history + [new message]: same roles and contents, same relative order,
\* no message more often than in the input.
C2_OrderPreservingSelection ==
  pcT = "returned" => IsSubSeq(kept, InputMessages)

\* C2 witness: a returned call that dropped a message and kept two messages
\* that differ, so that their order is observable.
C2_Witness ==
  /\ pcT = "returned"
  /\ Len(kept) = 2
  /\ Len(history) = 2
  /\ kept[1] # kept[2]

\* C3: the summed estimated cost of the returned messages does not exceed
\* the budget, except when the result is exactly the single new user message.
C3_WithinBudget ==
  pcT = "returned" =>
    \/ CostOf(kept) <= max_tokens
    \/ kept = <<NewMessage>>

\* C3 witness: a returned call that kept a history message with the budget
\* used up exactly, and dropped an older message that costs something.
C3_Witness ==
  /\ pcT = "returned"
  /\ Len(kept) = 2
  /\ Len(history) = 2
  /\ CostOf(kept) = max_tokens
  /\ Len(history[1].content) > 0

----------------------------------------------------------------------------
(* Properties of the Retry Executor and the adapter, checked under SpecRetry *)

AllFailed == \A k \in 1..Len(log) : log[k].res.tag = "err"
Annotated(r) ==
  /\ r.tag = "err"
  /\ r.error.kind = "context"
  /\ r.error.msg = "request failed after retries"
Is2xx(status) == status >= 200 /\ status <= 299

\* C4: an operation that fails on every attempt is invoked at most
\* 1 + max_retries = 4 times, after which with_retries returns an error
\* carrying the "request failed after retries" annotation; the executor is
\* never running beyond that bound.
C4_RetryBound ==
  /\ Len(log) <= 4
  /\ (AllFailed /\ Len(log) = 4) => (pcR = "failed" /\ Annotated(wr))
  /\ (AllFailed /\ Len(log) < 4) => (wr = NoResult /\ pcR \in {"with_retries", "sleep"})

\* C4 witness: four failed invocations and the annotated error returned.
C4_Witness ==
  /\ Len(log) = 4
  /\ AllFailed
  /\ pcR = "failed"
  /\ Annotated(wr)

\* C5: if the operation first succeeds on attempt k (1 <= k <= 4),
\* with_retries returns that success value and the operation has been invoked
\* exactly k times: attempt k+1 is never started and no sleep follows the
\* success.
C5_SuccessStopsRetrying ==
  \A k \in 1..Len(log) :
    log[k].res.tag = "ok" =>
      /\ k = Len(log)
      /\ k <= 4
      /\ wr = log[k].res
      /\ Len(sleeps) = k - 1
      /\ pcR \notin {"with_retries", "sleep"}

\* C5 witness: two failures, then a success on the third attempt, and the
\* adapter has gone on with that response.
C5_Witness ==
  /\ Len(log) = 3
  /\ log[3].res.tag = "ok"
  /\ pcR = "done"

\* C6: when all attempts fail, the returned error wraps the error of the
\* final (4th) attempt, not an earlier one.
C6_LastErrorWrapped ==
  (pcR = "failed" /\ AllFailed) =>
    /\ Len(log) = 4
    /\ Annotated(wr)
    /\ wr.error.source = log[4].res.error
    /\ result = wr

\* C6 witness: exhaustion where the first and the last attempt failed
\* differently, so that wrapping an earlier error would be visible.
C6_Witness ==
  /\ pcR = "failed"
  /\ AllFailed
  /\ log[1].res.error # log[4].res.error

C8_Original ==
  (pcR \in {"failed", "done"} /\ wr.tag = "ok") =>
    ((result.tag = "err" /\ result.error.kind = "provider") <=> ~Is2xx(wr.value.status))

----------------------------------------------------------------------------
(* Properties of the Streaming Decoder, checked under SpecStream *)

\* the body is content lines followed by the sentinel line as its last line
ContentThenDone ==
  /\ Len(sent) >= 2
  /\ sent[Len(sent)].kind = "done"
  /\ \A i \in 1..(Len(sent) - 1) : sent[i].kind = "content"

\* C9 as stated: for a body of data lines each carrying a content field,
\* followed by `data: [DONE]` and stream close, the decoder has yielded
\* exactly one fragment per data line, in line order, equal to that line's
\* content value, when it terminates.
C9_Original ==
  (pcS = "closed" /\ ContentThenDone) =>
    fragments = [i \in 1..(Len(sent) - 1) |-> sent[i].piece]

\* C10 as stated: once the decoder has read the sentinel line it yields no
\* further fragment; data lines after the sentinel are drained, not yielded.
C10_Original == sawDone => afterDone = 0

\* what the loop of lines 218-235 yields for the whole body in a single chunk
WholeBodyFragments ==
  DecodeLines(lines(from_utf8_lossy(wire)),
              [frags |-> <<>>, done |-> FALSE, after |-> 0]).frags

\* C11 as stated: the fragment sequence depends only on the concatenated
\* byte stream, not on how the transport cuts it into chunks: when the stream
\* closes, the decoder has yielded what it yields for the same bytes arriving
\* in one chunk.
C11_Original == pcS = "closed" => fragments = WholeBodyFragments

\* the content values of the body's content lines, in line order
RECURSIVE ContentPieces(_)
ContentPieces(ls) ==
  IF ls = <<>> THEN <<>>
  ELSE IF Head(ls).kind = "content" THEN <<Head(ls).piece>> \o ContentPieces(Tail(ls))
  ELSE ContentPieces(Tail(ls))

HasOtherLine == \E i \in 1..Len(sent) : sent[i].kind = "other"

----------------------------------------------------------------------------
(* Properties of the registry and the credential resolution, checked under
   SpecGateway *)

\* the static provider list, and the providers registered as stubs
StaticProviders == {Openai, Anthropic, Grok, Xai, Groq, Gemini, Ollama, Lmstudio}
StubProviders == StaticProviders \ {Openai}

\* an adapter call is under way or has just finished, on a stub / on the
\* OpenAI adapter
InStubCall == pcR # "idle" /\ to_lowercase(lookup.name) \in StubProviders
InOpenAiCall == pcR # "idle" /\ to_lowercase(lookup.name) = Openai

IsMissingCredential(r) ==
  /\ r.tag = "err"
  /\ r.error.kind = "context"
  /\ r.error.source.kind = "missing_key"

\* C13: get for a name that is not in the static provider list returns None
\* on every call, whatever lookups and adapter calls came before, and the
\* registry's contents are those of its construction.
C13_UnknownNameUnsupported ==
  /\ map = new_with_timeout
  /\ DOMAIN map = StaticProviders
  /\ (lookup.made /\ to_lowercase(lookup.name) \notin StaticProviders)
       => lookup.adapter = None

\* C13 witness: a lookup of "not-a-real-provider" that found nothing, made
\* after a call on the OpenAI adapter that resolved a key.
C13_Witness ==
  /\ lookup.made
  /\ lookup.name = NotARealProvider
  /\ lookup.adapter = None
  /\ api_key_opt # None

\* C14: for every name, get(name) finds an adapter if and only if
\* get(lowercase(name)) does, and it is the same adapter.
C14_CaseInsensitive ==
  /\ \A name \in LookupNames : get(map, name) = get(map, to_lowercase(name))
  /\ lookup.made => lookup.adapter = get(map, to_lowercase(lookup.name))

\* C14 witness: the lookup of "OpenAI" found the adapter registered as
\* "openai".
C14_Witness ==
  /\ lookup.made
  /\ lookup.name = MixedOpenAI
  /\ lookup.name # to_lowercase(lookup.name)
  /\ lookup.adapter = Some(map[Openai])

\* C15: for every provider registered as a stub, send and send_stream fail
\* at once with the not-implemented error naming that provider, for every
\* request: no variable is read, no request is sent, nothing is retried and
\* no partial result exists.
C15_StubFailsImmediately ==
  InStubCall =>
    /\ pcR = "failed"
    /\ result = Err(NotImplemented(to_lowercase(lookup.name)))
    /\ reads = {}
    /\ log = <<>> /\ attempt = 0 /\ sleeps = <<>>
    /\ wr = NoResult

\* C15 witness: send_stream on the adapter found for "GROQ", with a request
\* that names a base URL, has failed.
C15_Witness ==
  /\ InStubCall
  /\ lookup.name = UpperGROQ
  /\ stream
  /\ api_base = Some(GroqBase)
  /\ result.tag = "err"

\* the host of a URL: the text between "://" and the next ":" or "/"
HostOf(url) ==
  LET rest == From(url, Find(url, <<":", "/", "/">>) + 3)
      ends == { i \in 1..Len(rest) : rest[i] \in {":", "/"} }
  IN IF ends = {} THEN rest
     ELSE SubSeq(rest, 1, (CHOOSE i \in ends : \A j \in ends : i <= j) - 1)

IsLoopbackHost(url) == HostOf(url) \in {Localhost, LoopbackAddress}

\* the variable that holds the credential of a cloud endpoint
CloudVar(url) == IF HostOf(url) = GroqPattern THEN "GROQ_API_KEY" ELSE "OPENAI_API_KEY"

\* C16 as stated: a call to a loopback endpoint with no credential variable
\* set resolves with the credential not required and sends its requests
\* without bearer authentication; a call to a cloud endpoint whose variable
\* is unset fails with the missing-credential error before any request and
\* without entering the retry loop.
C16_Original ==
  InOpenAiCall =>
    /\ (IsLoopbackHost(base) /\ \A v \in EnvVars : env[v] = None)
         => /\ ~IsMissingCredential(result)
            /\ require_key = FALSE
            /\ \A k \in 1..Len(log) : log[k].auth = None
    /\ (~IsLoopbackHost(base) /\ env[CloudVar(base)] = None)
         => /\ IsMissingCredential(result)
            /\ pcR = "failed"
            /\ log = <<>> /\ attempt = 0 /\ sleeps = <<>>

\* C17 as stated: the credential is optional exactly when the host of the
\* effective base URL is a loopback host, whatever else the URL contains;
\* in every other case the endpoint's variable is read and required.
C17_Original ==
  InOpenAiCall =>
    /\ require_key <=> ~IsLoopbackHost(base)
    /\ ~IsLoopbackHost(base) => reads = {CloudVar(base)}

\* C18: in any sequence of calls on the adapter interleaved with changes of
\* the environment, a call's outcome is determined by the environment at the
\* time of that call: the key is the variable's current value, the call
\* fails for the missing credential exactly when the variable is required
\* and unset now, and every request carries the current value.
C18_NoCaching ==
  InOpenAiCall =>
    /\ reads # {}
    /\ \A v \in reads :
         /\ api_key_opt = env[v]
         /\ IsMissingCredential(result) <=> (require_key /\ env[v] = None)
         /\ \A k \in 1..Len(log) : log[k].auth = env[v]

\* C18 witness: a call resolved a key and returned, and the variable it read
\* has been unset since; the adapter is about to be called again.
C18_Witness ==
  /\ pcR = "idle"
  /\ to_lowercase(lookup.name) = Openai
  /\ api_key_opt # None
  /\ reads # {}
  /\ \A v \in reads : env[v] = None

----------------------------------------------------------------------------
(* Properties of the Conversation Store, checked under SpecStore *)

IsPrefix(s, t) == Len(s) <= Len(t) /\ SubSeq(t, 1, Len(s)) = s

\* C19: round trip.  For every conversation name and every record r, loading
\* the history right after append_record(name, r) yields a list whose last
\* element equals r in every field (timestamp, role, content, model, usage).
C19_RoundTrip ==
  [][\A name \in Names, r \in Records :
       AppendRecord(name, r) =>
         LET hist == load_session_history(files', name)
         IN hist # <<>> /\ hist[Len(hist)] = r]_vars

\* a second record, with escaped characters in its content and a usage, has
\* been appended and is read back as the last one
C19_Witness ==
  \E name \in Names :
    LET hist == load_session_history(files, name)
    IN /\ Len(hist) = 2
       /\ hist[2].content = SpecialText
       /\ hist[2].usage = Some(SomeUsage)
       /\ hist[2].model = Some(ModelName)

\* C20: append-only.  Whatever operation runs, the history of every
\* conversation loaded before it is a prefix of the history loaded after it,
\* and an append_record lengthens the loaded history by exactly one record.
\* (An operation that leaves every file as it was leaves every loaded history
\* as it was, the history being a function of the file.)
C20_AppendOnly ==
  [][\/ files' = files
     \/ \A name \in Names :
          LET before == load_session_history(files, name)
              after == load_session_history(files', name)
          IN /\ IsPrefix(before, after)
             /\ \A r \in Records :
                  AppendRecord(name, r) => Len(after) = Len(before) + 1]_vars

\* two records were appended to one conversation, the other one exists and
\* is empty, the active pointer is set and a listing has just been returned
C20_Witness ==
  /\ active # None
  /\ \E name \in Names : Len(load_session_history(files, name)) = 2
  /\ \E name \in Names : files[name] = Some(<<>>)
  /\ last_op = "list_sessions_metadata" /\ ret \in { Ok(l) : l \in Listings(files) }

\* C23: read paths treat missing files as empty.  On a conversation that was
\* never created, load_session_history and search_session return an empty
\* list without error; no read path creates a file or moves the pointer; and
\* get_active_session returns None as long as set_active_session was never
\* called.
C23_MissingIsEmpty ==
  [][/\ \A name \in Names :
          files[name] = None =>
            /\ Loaded(files, name) = Ok(<<>>)
            /\ \A needle \in Needles : search_session(files, name, needle) = <<>>
     /\ last_op' \in {"load_session_history", "search_session", "get_active_session"} =>
          files' = files /\ active' = active
     /\ (last_op' = "get_active_session" /\ last_set = None) => ret' = Ok(None)]_vars

\* get_active_session has answered None before any set_active_session, next
\* to a conversation that holds a record and one that was never created
C23_Witness ==
  /\ last_set = None /\ last_op = "get_active_session" /\ ret = Ok(None)
  /\ \E name \in Names : files[name] = None
  /\ \E name \in Names : load_session_history(files, name) # <<>>

\* C24: active pointer round trip.  get_active_session returns the name
\* given to the most recent set_active_session call, with the white space
\* around it trimmed, and append_record never changes the pointer.
C24_PointerRoundTrip ==
  [][/\ last_op' = "get_active_session" =>
          ret' = Ok(IF last_set = None THEN None ELSE Some(trim(last_set[1])))
     /\ last_op' = "append_record" => active' = active]_vars

\* the pointer was set to a name with white space around it, a record was
\* appended, and get_active_session has returned the trimmed name
C24_Witness ==
  /\ last_set = Some(<<" ", "a", "\n">>)
  /\ active = last_set
  /\ last_op = "get_active_session" /\ ret = Ok(Some(<<"a">>))
  /\ \E name \in Names : load_session_history(files, name) # <<>>

\* C25: search_session(name, needle) returns exactly the records of
\* load_session_history(name) whose content contains the needle, both taken
\* in lower case, in their original order.
C25_SearchIsFilter ==
  \A name \in Names, needle \in Needles :
    LET Matches(r) == contains(to_lowercase(r.content), to_lowercase(needle))
    IN search_session(files, name, needle)
         = SelectSeq(load_session_history(files, name), Matches)

\* a search has returned some but not all records of a conversation, matching
\* a needle whose case differs from the content's
C25_Witness ==
  \E name \in Names :
    LET found == search_session(files, name, <<"A">>)
    IN /\ last_op = "search_session" /\ ret = Ok(found)
       /\ found # <<>>
       /\ Len(found) < Len(load_session_history(files, name))

\* the timestamp of the last record of a conversation
LastRecordTime(name) ==
  LET hist == load_session_history(files, name)
  IN IF hist = <<>> THEN None ELSE Some(hist[Len(hist)].timestamp_ms)

\* C26: list_sessions_metadata returns one summary per stored conversation,
\* newest first by the timestamp of the last record: of two adjacent
\* summaries the earlier one's timestamp is >= the later one's, and a
\* conversation with no record comes after all that have one.
C26_NewestFirst ==
  \A l \in Listings(files) :
    /\ Len(l) = Cardinality({ n \in Names : files[n] # None })
    /\ { l[i].name : i \in 1..Len(l) } = { n \in Names : files[n] # None }
    /\ \A i \in 1..Len(l) : l[i].last_used_ms = LastRecordTime(l[i].name)
    /\ \A i \in 1..(Len(l) - 1) :
         /\ l[i].last_used_ms = None => l[i + 1].last_used_ms = None
         /\ (l[i].last_used_ms # None /\ l[i + 1].last_used_ms # None) =>
              l[i].last_used_ms[1] >= l[i + 1].last_used_ms[1]

\* a listing of two conversations with different last timestamps was returned
C26_Witness ==
  /\ last_op = "list_sessions_metadata" /\ ret.tag = "ok"
  /\ ret.value \in Listings(files)
  /\ Len(ret.value) = 2
  /\ ret.value[1].last_used_ms = Some(12)
  /\ ret.value[2].last_used_ms = Some(7)

----------------------------------------------------------------------------
(* Properties of the read paths over files of any content, under SpecRead *)

\* C22: load_session_history never fails because of unparseable content: for
\* a file with any mix of valid record lines, blank lines and unparseable
\* lines it returns exactly the valid records, in their file order.
C22_Original ==
  \A c \in ReadCases :
    files[<<"a">>] = Some(c.bytes) => Loaded(files, <<"a">>) = Ok(c.records)

\* the number of lines of a text: its line feeds, and the rest after the last
NumLines(bytes) ==
  Cardinality({ i \in DOMAIN bytes : bytes[i] = "\n" })
  + (IF bytes # <<>> /\ bytes[Len(bytes)] # "\n" THEN 1 ELSE 0)

\* C27 as stated: the count that list_sessions_metadata reports for a
\* conversation equals the number of records load_session_history returns
\* for it, whatever the file holds.
C27_Original ==
  (last_op = "list_sessions_metadata" /\ ret.tag = "ok") =>
    \A i \in 1..Len(ret.value) :
      ret.value[i].num_lines = Len(load_session_history(files, ret.value[i].name))

\* C27: the count that list_sessions_metadata reports for a conversation is
\* the number of lines of its file, blank and unparseable lines included; it
\* is never less than the number of records load_session_history returns.
C27_CountsLines ==
  (last_op = "list_sessions_metadata" /\ ret.tag = "ok") =>
    \A i \in 1..Len(ret.value) :
      /\ ret.value[i].num_lines = NumLines(files[ret.value[i].name][1])
      /\ ret.value[i].num_lines >= Len(load_session_history(files, ret.value[i].name))

\* a listing reports two lines for a file that holds one record and a blank
\* line
C27_Witness ==
  /\ last_op = "list_sessions_metadata" /\ ret.tag = "ok"
  /\ \E i \in 1..Len(ret.value) :
       /\ ret.value[i].num_lines = 2
       /\ Len(load_session_history(files, ret.value[i].name)) = 1
       /\ \E j \in 1..Len(files[ret.value[i].name][1]) - 1 :
            SubSeq(files[ret.value[i].name][1], j, j + 1) = <<"\n", "\n">>

----------------------------------------------------------------------------
(* Properties of concurrent appends, checked under SpecWriters *)

\* the append_record calls on a conversation that have returned
Returned(name) == { p \in Procs : writers[p].pc = "done" /\ writers[p].name = name }

\* the text of p's record is directly followed by q's bytes, not by its own
\* line feed
Torn(name) ==
  \E p, q \in Procs :
    /\ p # q /\ writers[p].name = name /\ writers[q].name = name
    /\ writers[p].pc \in {"newline", "done"} /\ writers[q].pc \in {"newline", "done"}
    /\ contains(files[name][1], writers[p].line \o writers[q].line)

\* C28: the store takes no lock and an append is two writes, so two processes
\* in append_record on one conversation can interleave them: a state is
\* reachable (C28_Witness) in which a record's text and its line feed are
\* separated by the other writer's bytes and load_session_history returns
\* fewer records than were appended.  Records are lost in no other way:
\* whenever fewer records load than appends have returned, the file is torn
\* like that.
C28_LossOnlyByInterleaving ==
  \A name \in Names :
    Len(load_session_history(files, name)) < Cardinality(Returned(name)) => Torn(name)

\* both appends have returned, the two texts sit on one line, and no record
\* can be loaded
C28_Witness ==
  \E name \in Names :
    /\ Returned(name) = Procs
    /\ Torn(name)
    /\ load_session_history(files, name) = <<>>

----------------------------------------------------------------------------
(* Properties of the turns of ask and chat, checked under SpecTurns *)

\* the completed turns bound to a conversation: all of them, and those that
\* did not stream
TurnsOn(name) == LET On(d) == d.session_name = name IN SelectSeq(done, On)
PlainTurnsOn(name) ==
  LET On(d) == d.session_name = name /\ ~d.stream IN SelectSeq(done, On)

\* C21: with one writer and a clock that never goes back, the timestamps of a
\* conversation's records are non-decreasing in stored order (a user
\* record's <= its assistant record's <= the next turn's user record's).
C21_TimestampsMonotone ==
  \A name \in Names :
    LET hist == load_session_history(files, name)
    IN \A i \in 1..(Len(hist) - 1) :
         hist[i].timestamp_ms <= hist[i + 1].timestamp_ms

\* two turns are stored, the clock having advanced between them
C21_Witness ==
  \E name \in Names :
    LET hist == load_session_history(files, name)
    IN /\ Len(hist) = 4
       /\ hist[1].timestamp_ms <= hist[2].timestamp_ms
       /\ hist[2].timestamp_ms < hist[3].timestamp_ms

\* C29: every successful non-streaming ask or chat turn bound to a
\* conversation appends exactly two records to it, the user turn first and
\* the assistant turn second; the user record's content is the prompt and
\* the assistant record carries the model name.
C29_TwoRecordsPerTurn ==
  \A name \in Names :
    LET hist == load_session_history(files, name)
        turns == PlainTurnsOn(name)
        half == pcA = "assistant" /\ turn.session_name = name
    IN /\ Len(hist) = 2 * Len(turns) + (IF half THEN 1 ELSE 0)
       /\ \A k \in 1..Len(turns) :
            /\ hist[2 * k - 1].role = <<"u", "s", "e", "r">>
            /\ hist[2 * k - 1].content = turns[k].prompt
            /\ hist[2 * k].role = <<"a", "s", "s", "i", "s", "t", "a", "n", "t">>
            /\ hist[2 * k].model = Some(ModelName)
       /\ half => /\ hist[Len(hist)].role = <<"u", "s", "e", "r">>
                   /\ hist[Len(hist)].content = turn.prompt

\* an ask turn answered by the backend has returned and its two records are
\* stored
C29_Witness ==
  /\ pcA = "idle" /\ last_op = "append_record" /\ ret = Ok(Unit)
  /\ \E name \in Names :
       LET hist == load_session_history(files, name)
       IN /\ done = <<[session_name |-> name, stream |-> FALSE, prompt |-> PlainText]>>
          /\ Len(hist) = 2
          /\ hist[1].content = PlainText
          /\ hist[2].content = <<"o", "k">>
          /\ hist[2].usage = Some(SomeUsage)

\* C30: when a streaming call bound to a conversation completes, the user
\* turn and the assistant turn assembled from the fragments are appended to
\* the conversation: between turns, every completed turn bound to a
\* conversation, streamed or not, has left its two records there.
C30_Original ==
  \A name \in Names :
    pcA \in {"idle", "chat"} =>
      Len(load_session_history(files, name)) = 2 * Len(TurnsOn(name))

----------------------------------------------------------------------------
(* Further properties of the Context Builder, checked under SpecTrunc *)

\* the last k messages of history + [new message]
InputSuffix(k) ==
  SubSeq(InputMessages, Len(InputMessages) - k + 1, Len(InputMessages))

\* the lengths of the suffixes, the new message included, that fit the budget
FittingLengths ==
  { k \in 1..Len(InputMessages) : CostOf(InputSuffix(k)) <= max_tokens }

\* C35: truncation is pure drop-from-the-oldest: the result is the longest
\* contiguous suffix of history + [new message] whose total estimated cost
\* fits the budget, or the single new message when even that does not fit;
\* once a message is dropped every older one is dropped too, even one small
\* enough to fit in what is left of the budget.
C35_LongestFittingSuffix ==
  pcT = "returned" =>
    IF FittingLengths = {} THEN kept = <<NewMessage>>
    ELSE \E k \in FittingLengths :
           /\ \A j \in FittingLengths : j <= k
           /\ kept = InputSuffix(k)

\* a returned call that dropped the newer history message for its cost, and
\* with it the older one, which would have fitted in what is left
C35_Witness ==
  /\ pcT = "returned"
  /\ Len(history) = 2
  /\ kept = <<NewMessage>>
  /\ CostOf(kept) <= max_tokens
  /\ history[1].content # <<>>
  /\ CostOf(kept) + CeilQuarter(history[1].content) <= max_tokens
  /\ CostOf(kept) + CeilQuarter(history[2].content) > max_tokens

----------------------------------------------------------------------------
(* Further properties of the Retry Executor, checked under SpecRetry *)

\* the invocations of f that have failed so far
Failures == Cardinality({ k \in 1..Len(log) : log[k].res.tag = "err" })

\* C34: the backoff delays are bounded and strictly increasing: the sleep
\* before retry n (n = 1, 2, 3) lies in [2^n * 100, 2^n * 100 + 100) ms,
\* exactly one sleep separates consecutive attempts, and no sleep follows
\* the final failed attempt.
C34_BackoffBounds ==
  /\ Len(sleeps) <= 3
  /\ Len(sleeps) = IF Failures = max_retries + 1 THEN max_retries ELSE Failures
  /\ \A n \in 1..Len(sleeps) :
       /\ sleeps[n] >= (2 ^ n) * 100
       /\ sleeps[n] < (2 ^ n) * 100 + 100
       /\ n > 1 => sleeps[n - 1] < sleeps[n]
  /\ pcR = "sleep" => (Len(sleeps) = Len(log) /\ Len(log) <= max_retries)
  /\ (pcR = "failed" /\ AllFailed) => Len(sleeps) = Len(log) - 1

\* four failed attempts with three sleeps between them, the first with the
\* largest jitter and the second with none
C34_Witness ==
  /\ pcR = "failed"
  /\ Failures = 4
  /\ Len(sleeps) = 3
  /\ sleeps[1] = 299
  /\ sleeps[2] = 400

----------------------------------------------------------------------------
(* Properties of the error report, checked under SpecReport *)

\* every attempt of the call failed on the timeout of the HTTP client
AllTimedOut ==
  /\ Len(log) = max_retries + 1
  /\ \A k \in 1..Len(log) :
       log[k].res.tag = "err" /\ log[k].res.error = TransportError("timeout")

\* C32: a provider call whose every attempt times out surfaces to the
\* caller as the distinguished timeout error: a message that says so, and
\* the code "timeout", not "unknown".
C32_Original ==
  (last_op = "main" /\ AllTimedOut) =>
    /\ ret.code = "timeout"
    /\ contains(ret.message, <<"t", "i", "m", "e", "d", " ", "o", "u", "t">>)

----------------------------------------------------------------------------
(* Properties of `session switch`, checked under SpecSession *)

\* C33: `session switch NAME` for a conversation that does not exist fails
\* with a session-not-found error and leaves the active pointer and all
\* conversations unchanged; for an existing conversation it sets the active
\* pointer to it and leaves its records unchanged.
C33_SwitchChecksExistence ==
  [][last_op' = "session_switch" =>
       \E name \in Names :
         IF files[name] = None
         THEN /\ ret' = Err(Message(SessionLine(FALSE, name)))
              /\ active' = active
              /\ files' = files
         ELSE /\ ret' = Ok(SessionLine(TRUE, name))
              /\ active' = Some(name)
              /\ files' = files]_vars

\* a switch to a conversation that does not exist has failed, the pointer
\* still on the conversation that holds records
C33_Witness ==
  /\ last_op = "session_switch"
  /\ ret = Err(Message(SessionLine(FALSE, <<"b">>)))
  /\ active = Some(<<"a">>)
  /\ files[<<"a">>] # None /\ files[<<"b">>] = None

----------------------------------------------------------------------------
(* Properties of send_openai_stream as a whole, checked under SpecSendStream *)

ContentLines == Cardinality({ i \in 1..Len(sent) : sent[i].kind = "content" })

\* C36: the fragment sequence is forward-only and not restartable: the
\* connection is established, with retries, before any fragment is yielded;
\* when reading the byte stream fails after k fragments the sequence ends
\* with that error as its last item; there is no reconnection, no retry and
\* no fragment is yielded twice.
C36_ForwardOnly ==
  [][/\ pcS' # "idle" => (pcR' = "streaming" /\ result'.tag = "ok")
     /\ IsPrefix(fragments, fragments')
     /\ Len(fragments') <= ContentLines'
     /\ pcS # "idle" => (log' = log /\ sent' = sent /\ pos' >= pos)
     /\ pcS \in {"failed", "closed"} => (pcS' = pcS /\ fragments' = fragments)]_vars

\* reading the body has failed after one fragment, with bytes of the body
\* still to come
C36_Witness ==
  /\ pcR = "streaming"
  /\ pcS = "failed"
  /\ Len(fragments) = 1
  /\ ContentLines = 1
  /\ pos < Len(wire)

----------------------------------------------------------------------------
(* Further properties of the turns, checked under SpecTurns *)

\* C37: when the provider call of a non-streaming ask or chat turn fails, no
\* record is appended: the conversation holds exactly the records it held
\* before the turn, and the user turn is never persisted without its
\* assistant reply.
C37_FailedCallStoresNothing ==
  [][(/\ last_op' \in {"cmd_ask", "cmd_chat"}
      /\ pcA \in {"idle", "chat"} /\ pcA' = "idle"
      /\ ret' = Err([kind |-> "provider"])) =>
       /\ files' = files
       /\ done' = done
       /\ \A name \in Names :
            Len(load_session_history(files', name)) = 2 * Len(PlainTurnsOn(name)')]_vars

\* the provider call of a chat turn has failed, after a turn of the same
\* conversation that was answered and stored
C37_Witness ==
  /\ last_op = "cmd_chat" /\ pcA = "idle"
  /\ ret = Err([kind |-> "provider"])
  /\ Len(done) = 1 /\ ~done[1].stream
  /\ Len(load_session_history(files, done[1].session_name)) = 2

----------------------------------------------------------------------------
(* Properties of the chunking, checked under SpecChunk *)

\* bytes is the chunks in order, with one blank or line feed after a chunk
\* where the text was split, and nothing else
RECURSIVE Rejoins(_, _)
Rejoins(bytes, cs) ==
  IF cs = <<>> THEN bytes = <<>>
  ELSE /\ IsPrefix(cs[1].text, bytes)
       /\ LET rest == SubSeq(bytes, Len(cs[1].text) + 1, Len(bytes))
          IN IF rest = <<>> THEN Len(cs) = 1
             ELSE /\ rest[1] \in {" ", "\n"}
                  /\ Rejoins(Tail(rest), Tail(cs))

\* C39: chunk_text_for_token_limit loses no content: for every text and
\* every max_tokens_per_chunk >= 1 the chunks are indexed 0..n-1 in order,
\* each chunk has at most 4 * max_tokens_per_chunk bytes, and the chunks
\* joined give the text back but for single blanks or line feeds removed at
\* the split points; no other character is dropped.
C39_Original ==
  (pcB = "chunked" /\ max_tokens_per_chunk >= 1) =>
    /\ \A i \in 1..Len(chunks) :
         /\ chunks[i].index = i - 1
         /\ Len(chunks[i].text) <= 4 * max_tokens_per_chunk
    /\ Rejoins(input_text, chunks)

----------------------------------------------------------------------------
(* Properties of the batch summarize, checked under SpecSummarize *)

SynthesisCalls == { k \in 1..Len(calls) : calls[k].kind = "synthesis" }

\* C31: in the batch summarize of N >= 2 chunks the synthesis request is
\* issued only after all N chunk requests have completed, under every
\* interleaving of the tasks; if any one chunk task fails, no synthesis
\* request is issued and the whole command fails.
C31_JoinBarrier ==
  /\ SynthesisCalls # {} =>
       /\ Len(chunks) >= 2
       /\ SynthesisCalls = {Len(chunks) + 1}
       /\ \A i \in 1..Len(chunks) :
            /\ tasks[i] = "ok"
            /\ \E k \in 1..Len(chunks) : calls[k] = [kind |-> "chunk", index |-> i - 1]
  /\ (\E i \in 1..Len(tasks) : tasks[i] = "failed") =>
       /\ SynthesisCalls = {}
       /\ pcB \in {"join", "failed"}
       /\ (\A i \in 1..Len(tasks) : tasks[i] \in {"ok", "failed"}) =>
            ENABLED Join \/ pcB = "failed"

\* three chunks: the synthesis request has been sent, after the request of
\* the last chunk was sent first and that of the first chunk last
C31_Witness ==
  /\ Len(chunks) = 3
  /\ pcB = "synthesis"
  /\ Len(calls) = 4
  /\ calls[1].index = 2 /\ calls[3].index = 0
  /\ calls[4].kind = "synthesis"

====
